---- MODULE Spec2Model ----
(***************************************************************************)
(* Ledger core of the Bespin node: Blockchain (chain.py), UTXOSet          *)
(* (utxo_set.py), Block (blockchain.py), Transaction (transaction.py),     *)
(* MerkleTree (merkle_tree.py), BlockchainDB (persistence.py) and the two  *)
(* request handlers of api.py that mutate the ledger.                      *)
(*                                                                         *)
(* Hashes are idealised: a digest is the structure it was computed from,   *)
(* so two digests are equal exactly when their preimages are.  A block     *)
(* hash is the tuple <<leading zeros, header fields...>>; a hash supplied  *)
(* by a client that was not computed from a header is a shorter tuple.     *)
(* Amounts of the ledger are whole coins; the amounts of the issuance      *)
(* schedule, which halve, are counted in binary fractions of a coin.       *)
(***************************************************************************)
EXTENDS Integers, Sequences, FiniteSets, TLC

\* ---------------------------------------------------------------- bounds
MaxChain == 3          \* add_block is offered while the chain is shorter
MaxPending == 2        \* add_transaction is offered while the mempool is shorter
ConcMaxChain == 2      \* the same two limits for concurrent requests
ConcMaxPending == 1
MaxHalvings == 4       \* the issuance schedule is followed through this many halvings
IssuanceWindow == 12   \* and block by block within this distance of each halving

\* ------------------------------------------------------- program constants
Difficulty == 1
MiningReward == 50
HalvingInterval == 210000
FounderAllocation == 20000000
MaxSupply == 100000000
\* 0xffffffff, the 32-bit all-ones pattern, written as the signed value -1.
CoinbaseVout == -1
DefaultSequence == -1
ZeroTxid == 0
RecentBlocks == 100

Threads == {1, 2}

\* ------------------------------------------------------------ crypto_utils
\* Private keys of the two wallets of the model; the public key of a wallet
\* is written with the same name.
Keys == {"kF", "kM"}

\* Wallet.generate_address: base58check(0x00 || ripemd160(sha256(pubkey))).
generate_address(pk) ==
    CASE pk = "kF" -> "aF"
      [] pk = "kM" -> "aM"
      [] OTHER -> "a?"

\* Wallet.sign: an ECDSA signature, idealised as the pair (signer, message).
sign(k, message) == [by |-> k, msg |-> message]

\* Wallet.verify_signature: true iff the signature was made over this
\* message with the private key of public_key.
verify_signature(public_key, signature, message) ==
    /\ signature.by = public_key
    /\ signature.msg = message

\* -------------------------------------------------------------- transaction
\* A script_sig is the sequence of its ':'-separated parts
\* (script_sig.split(":")).  A part that is not a signature is an opaque
\* text; a signature part is the value of sign, a public-key part a key name.
Text(s, data) == [by |-> s, msg |-> data]

TxInput(txid, vout, script_sig) ==
    [txid |-> txid, vout |-> vout, script_sig |-> script_sig,
     sequence |-> DefaultSequence]

TxOutput(amount, script_pubkey) ==
    [amount |-> amount, script_pubkey |-> script_pubkey]

\* Transaction.is_coinbase
is_coinbase(tx) ==
    /\ Len(tx.inputs) = 1
    /\ tx.inputs[1].txid = ZeroTxid
    /\ tx.inputs[1].vout = CoinbaseVout

\* get_signing_data replacing only the script_sig of the input signed.
get_signing_data_KeepOthers(tx, input_index) ==
    << [j \in 1..Len(tx.inputs) |->
          << tx.inputs[j].txid, tx.inputs[j].vout,
             IF j = input_index THEN << >> ELSE tx.inputs[j].script_sig,
             tx.inputs[j].sequence >>],
       tx.outputs, tx.locktime, tx.timestamp >>

\* Transaction.get_signing_data(input_index): every input's script_sig is
\* replaced, by 'PLACEHOLDER' for the input signed and '' for the others.
get_signing_data(tx, input_index) ==
    << [j \in 1..Len(tx.inputs) |->
          << tx.inputs[j].txid, tx.inputs[j].vout,
             IF j = input_index THEN "PLACEHOLDER" ELSE "",
             tx.inputs[j].sequence >>],
       tx.outputs, tx.locktime, tx.timestamp >>

\* Transaction.create_coinbase; the txid is the one the constructor derived.
create_coinbase(txid, recipient_address, amount, block_height) ==
    [txid |-> txid, version |-> 1, locktime |-> 0, timestamp |-> 0,
     inputs |-> << TxInput(ZeroTxid, CoinbaseVout, << Text("coinbase_block", << block_height >>) >>) >>,
     outputs |-> << TxOutput(amount, recipient_address) >>]

\* A transaction spending the outpoints `outpoints`, every input signed with
\* the private key `k` and carrying the public key `pk`
\* (script_sig = signature ":" public key).
SignedTx(txid, outpoints, outputs, k, pk) ==
    LET unsigned == [txid |-> txid, version |-> 1, locktime |-> 0, timestamp |-> 0,
                     inputs |-> [j \in 1..Len(outpoints) |->
                                   TxInput(outpoints[j][1], outpoints[j][2], << Text("", << >>) >>)],
                     outputs |-> outputs]
    IN [unsigned EXCEPT !.inputs =
          [j \in 1..Len(outpoints) |->
             [unsigned.inputs[j] EXCEPT
                 !.script_sig = << sign(k, get_signing_data(unsigned, j)), pk >>]]]

\* Transaction.calculate_txid: double SHA-256 of to_dict(include_txid=False),
\* which holds every input with its script_sig; the digest is idealised as
\* the content hashed.
calculate_txid(tx) ==
    << tx.version,
       [j \in 1..Len(tx.inputs) |->
          << tx.inputs[j].txid, tx.inputs[j].vout, tx.inputs[j].script_sig,
             tx.inputs[j].sequence >>],
       tx.outputs, tx.locktime, tx.timestamp >>

\* Transaction(inputs, outputs) constructed at time now: the txid is derived
\* once, from the content at construction.
Transaction(inputs, outputs, now) ==
    LET fields == [txid |-> << >>, version |-> 1, locktime |-> 0, timestamp |-> now,
                   inputs |-> inputs, outputs |-> outputs]
    IN [fields EXCEPT !.txid = calculate_txid(fields)]

\* ------------------------------------------------------------- merkle_tree
RECURSIVE build_tree(_)
\* MerkleTree.build_tree over a level of node hashes.
build_tree(txids) ==
    IF txids = << >> THEN << 0 >>
    ELSE IF Len(txids) = 1 THEN txids[1]
    ELSE LET lvl == IF Len(txids) % 2 # 0 THEN Append(txids, txids[Len(txids)]) ELSE txids
             next_level == [i \in 1..(Len(lvl) \div 2) |-> << lvl[2*i - 1], lvl[2*i] >>]
         IN build_tree(next_level)

\* MerkleTree(tx_ids).get_root() for the txids of a list of transactions.
get_root(transactions) ==
    build_tree([i \in 1..Len(transactions) |-> << transactions[i].txid >>])

\* MerkleTree(transactions): build_tree appends the last txid to the list it
\* is given when its length is odd, and the list it is given is the one the
\* tree keeps.
MerkleTree(transactions) ==
    [transactions |-> IF Len(transactions) > 1 /\ Len(transactions) % 2 # 0
                      THEN Append(transactions, transactions[Len(transactions)])
                      ELSE transactions,
     root |-> build_tree(transactions)]

RECURSIVE ProofFrom(_, _)
\* The while loop of get_proof over the level txids with the node at
\* position index (from 0): the sibling and its side, then the level above.
ProofFrom(txids, index) ==
    IF Len(txids) <= 1 THEN << >>
    ELSE LET lvl == IF Len(txids) % 2 # 0 THEN Append(txids, txids[Len(txids)]) ELSE txids
             sibling_index == IF index % 2 = 0 THEN index + 1 ELSE index - 1
             is_left == index % 2 # 0
             next_level == [i \in 1..(Len(lvl) \div 2) |-> << lvl[2*i - 1], lvl[2*i] >>]
         IN << << lvl[sibling_index + 1], is_left >> >> \o ProofFrom(next_level, index \div 2)

\* MerkleTree.get_proof(tx_index): a list of (hash, is_left) pairs.
get_proof(tree, tx_index) ==
    IF tx_index >= Len(tree.transactions) THEN << >>
    ELSE ProofFrom(tree.transactions, tx_index)

RECURSIVE HashUpTo(_, _, _)
\* current_hash of verify_proof after the first k elements of the proof.
HashUpTo(txid, proof, k) ==
    IF k = 0 THEN txid
    ELSE LET current_hash == HashUpTo(txid, proof, k - 1)
             sibling_hash == proof[k][1]
             is_left == proof[k][2]
         IN IF is_left THEN << sibling_hash, current_hash >>
            ELSE << current_hash, sibling_hash >>

\* verify_proof with the flag of every element read as False.
verify_proof_RightOnly(txid, proof, root) ==
    HashUpTo(txid, [k \in 1..Len(proof) |-> << proof[k][1], FALSE >>], Len(proof)) = root

\* MerkleTree.verify_proof
verify_proof(txid, proof, root) ==
    HashUpTo(txid, proof, Len(proof)) = root

\* ---------------------------------------------------------------- blockchain
ZeroHash == << 64 >>

\* Block.calculate_hash: double SHA-256 of the header.  The number of leading
\* zeros of the digest is idealised as the nonce.
calculate_hash(b) ==
    << b.nonce, b.index, b.timestamp, b.previous_hash, b.merkle_root, b.difficulty >>

\* Number of leading '0' characters of a hash string.
LeadingZeros(h) == h[1]

\* str.startswith('0' * n)
StartsWithZeros(h, n) == LeadingZeros(h) >= n

\* Block.verify_merkle_root
verify_merkle_root(b) == get_root(b.transactions) = b.merkle_root

\* Block(index, transactions, previous_hash, difficulty) followed by
\* mine_block(): the first nonce whose hash meets the difficulty.
MinedBlock(index, transactions, previous_hash, difficulty) ==
    LET b0 == [index |-> index, timestamp |-> 0, transactions |-> transactions,
               previous_hash |-> previous_hash, difficulty |-> difficulty,
               nonce |-> difficulty, merkle_root |-> get_root(transactions),
               hash |-> << >>]
    IN [b0 EXCEPT !.hash = calculate_hash(b0)]

\* ---------------------------------------------------------------- utxo_set
\* A UTXOSet with a store attached is the pair of its in-memory map
\* (utxos: key -> UTXO) and the rows of the store's utxos table.
UtxoKey(txid, vout) == << txid, vout >>

UTXO(txid, vout, amount, script_pubkey) ==
    [txid |-> txid, vout |-> vout, amount |-> amount, script_pubkey |-> script_pubkey]

\* BlockchainDB.add_utxo: INSERT OR REPLACE INTO utxos.
db_add_utxo(rows, utxo) ==
    (UtxoKey(utxo.txid, utxo.vout) :> [amount |-> utxo.amount, address |-> utxo.script_pubkey])
        @@ rows

\* BlockchainDB.remove_utxo: DELETE FROM utxos WHERE txid = ? AND vout = ?.
db_remove_utxo(rows, txid, vout) ==
    [k \in DOMAIN rows \ {UtxoKey(txid, vout)} |-> rows[k]]

\* UTXOSet.add_utxo, write-through.
add_utxo(S, utxo) ==
    [mem |-> (UtxoKey(utxo.txid, utxo.vout) :> utxo) @@ S.mem,
     db  |-> db_add_utxo(S.db, utxo)]

\* UTXOSet.get_utxo: TRUE iff the lookup returns a UTXO (not None).
has_utxo(mem, txid, vout) == UtxoKey(txid, vout) \in DOMAIN mem

\* remove_utxo without the call of self.db.remove_utxo.
remove_utxo_MemoryOnly(S, txid, vout) ==
    IF has_utxo(S.mem, txid, vout)
    THEN [mem |-> [k \in DOMAIN S.mem \ {UtxoKey(txid, vout)} |-> S.mem[k]],
          db  |-> S.db]
    ELSE S

\* UTXOSet.remove_utxo: pops the key; the store row is deleted only when the
\* key was in memory.
remove_utxo(S, txid, vout) ==
    IF has_utxo(S.mem, txid, vout)
    THEN [mem |-> [k \in DOMAIN S.mem \ {UtxoKey(txid, vout)} |-> S.mem[k]],
          db  |-> db_remove_utxo(S.db, txid, vout)]
    ELSE S

RECURSIVE RemoveSpent_SkipMissing(_, _, _)
\* RemoveSpent as it would be if a missing UTXO did not stop the loop.
RemoveSpent_SkipMissing(S, inputs, j) ==
    IF j > Len(inputs) THEN [ok |-> TRUE, S |-> S]
    ELSE RemoveSpent_SkipMissing(remove_utxo(S, inputs[j].txid, inputs[j].vout), inputs, j + 1)

RECURSIVE RemoveSpent(_, _, _)
\* The input loop of process_transaction from input j on: stops at the first
\* input whose UTXO is missing, keeping the removals already made.
RemoveSpent(S, inputs, j) ==
    IF j > Len(inputs) THEN [ok |-> TRUE, S |-> S]
    ELSE IF ~ has_utxo(S.mem, inputs[j].txid, inputs[j].vout)
         THEN [ok |-> FALSE, S |-> S]
         ELSE RemoveSpent(remove_utxo(S, inputs[j].txid, inputs[j].vout), inputs, j + 1)

RECURSIVE AddOutputs(_, _, _)
\* The output loop of process_transaction from output j on (vout = j - 1).
AddOutputs(S, tx, j) ==
    IF j > Len(tx.outputs) THEN S
    ELSE AddOutputs(add_utxo(S, UTXO(tx.txid, j - 1, tx.outputs[j].amount,
                                     tx.outputs[j].script_pubkey)),
                    tx, j + 1)

\* UTXOSet.process_transaction: [ok, S] with S the set after the call.
process_transaction(S, tx) ==
    LET r == IF is_coinbase(tx) THEN [ok |-> TRUE, S |-> S]
             ELSE RemoveSpent(S, tx.inputs, 1)
    IN IF r.ok THEN [ok |-> TRUE, S |-> AddOutputs(r.S, tx, 1)]
       ELSE r

RECURSIVE SumAmounts(_, _)
\* sum(out.amount for out in outputs[j:])
SumAmounts(outputs, j) ==
    IF j > Len(outputs) THEN 0 ELSE outputs[j].amount + SumAmounts(outputs, j + 1)

RECURSIVE SumInputs(_, _, _)
\* The input total of validate_transaction, over inputs whose UTXO exists.
SumInputs(mem, inputs, j) ==
    IF j > Len(inputs) THEN 0
    ELSE mem[UtxoKey(inputs[j].txid, inputs[j].vout)].amount + SumInputs(mem, inputs, j + 1)

\* UTXOSet.validate_transaction: the error string, "" when valid.
validate_transaction(mem, tx) ==
    IF is_coinbase(tx) THEN ""
    ELSE IF \E j \in 1..Len(tx.inputs) : ~ has_utxo(mem, tx.inputs[j].txid, tx.inputs[j].vout)
         THEN "UTXO not found"
         ELSE IF SumInputs(mem, tx.inputs, 1) < SumAmounts(tx.outputs, 1)
              THEN "Insufficient funds"
              ELSE ""

\* UTXOSet.get_balance
get_balance(mem, address) ==
    LET ks == {k \in DOMAIN mem : mem[k].script_pubkey = address}
        RECURSIVE Sum(_)
        Sum(s) == IF s = {} THEN 0
                  ELSE LET k == CHOOSE x \in s : TRUE IN mem[k].amount + Sum(s \ {k})
    IN Sum(ks)

\* -------------------------------------------------------------- persistence
\* BlockchainDB.get_block_count: MAX(block_index) + 1, 0 on an empty table.
get_block_count(blocks) ==
    IF DOMAIN blocks = {} THEN 0
    ELSE (CHOOSE m \in DOMAIN blocks : \A k \in DOMAIN blocks : k <= m) + 1

\* The row save_block writes to the blocks table.
BlockRow(b) ==
    [timestamp |-> b.timestamp, previous_hash |-> b.previous_hash,
     merkle_root |-> b.merkle_root, nonce |-> b.nonce,
     difficulty |-> b.difficulty, hash |-> b.hash]

RECURSIVE save_transactions(_, _, _, _)
\* The save_transaction loop of save_block from transaction j on:
\* INSERT OR IGNORE on the txid; inputs and outputs are written only when the
\* transaction row was inserted.
save_transactions(txs, transactions, block_index, j) ==
    IF j > Len(transactions) THEN txs
    ELSE LET tx == transactions[j]
             txs1 == IF tx.txid \in DOMAIN txs THEN txs
                     ELSE (tx.txid :> [block_index |-> block_index, tx |-> tx]) @@ txs
         IN save_transactions(txs1, transactions, block_index, j + 1)

\* BlockchainDB.save_block on the tables (blocks, txs): refuses a block for
\* whose index transactions are already stored, else INSERT OR REPLACE the
\* header row and save the transactions.
save_block(blocks, txs, b) ==
    IF \E id \in DOMAIN txs : txs[id].block_index = b.index
    THEN [ok |-> FALSE, blocks |-> blocks, txs |-> txs]
    ELSE [ok |-> TRUE,
          blocks |-> (b.index :> BlockRow(b)) @@ [k \in DOMAIN blocks \ {b.index} |-> blocks[k]],
          txs |-> save_transactions(txs, b.transactions, b.index, 1)]

RECURSIVE SortAsc(_)
\* A finite set of integers as an ascending sequence (ORDER BY ... ASC).
SortAsc(s) ==
    IF s = {} THEN << >>
    ELSE LET m == CHOOSE x \in s : \A y \in s : x <= y
         IN << m >> \o SortAsc(s \ {m})

\* BlockchainDB.load_transactions_for_block: the stored transactions of the
\* block, ORDER BY txid.
load_transactions_for_block(txs, block_index) ==
    LET ids == SortAsc({id \in DOMAIN txs : txs[id].block_index = block_index})
    IN [i \in 1..Len(ids) |-> txs[ids[i]].tx]

\* BlockchainDB.get_metadata: the value of the row, None without a row.
get_metadata(rows, key) == IF key \in DOMAIN rows THEN rows[key] ELSE "None"

\* BlockchainDB.get_latest_block_from_db: the row of the greatest
\* block_index with its transactions (the store holds at least one block).
get_latest_block_from_db(blocks, txs) ==
    LET block_index == CHOOSE m \in DOMAIN blocks : \A k \in DOMAIN blocks : k <= m
    IN [index |-> block_index,
        timestamp |-> blocks[block_index].timestamp,
        transactions |-> load_transactions_for_block(txs, block_index),
        previous_hash |-> blocks[block_index].previous_hash,
        difficulty |-> blocks[block_index].difficulty,
        nonce |-> blocks[block_index].nonce,
        merkle_root |-> blocks[block_index].merkle_root,
        hash |-> blocks[block_index].hash]

\* BlockchainDB.load_recent_blocks(count): the count stored blocks of highest
\* index, in ascending index order, each rebuilt from its row and its stored
\* transactions.
load_recent_blocks(blocks, txs, count) ==
    LET all == SortAsc(DOMAIN blocks)
        idx == IF Len(all) > count THEN SubSeq(all, Len(all) - count + 1, Len(all)) ELSE all
    IN [i \in 1..Len(idx) |->
          [index |-> idx[i],
           timestamp |-> blocks[idx[i]].timestamp,
           transactions |-> load_transactions_for_block(txs, idx[i]),
           previous_hash |-> blocks[idx[i]].previous_hash,
           difficulty |-> blocks[idx[i]].difficulty,
           nonce |-> blocks[idx[i]].nonce,
           merkle_root |-> blocks[idx[i]].merkle_root,
           hash |-> blocks[idx[i]].hash]]

\* BlockchainDB.load_utxo_set: the rows of the utxos table as a UTXO map.
load_utxo_set(rows) ==
    [k \in DOMAIN rows |-> UTXO(k[1], k[2], rows[k].amount, rows[k].address)]

\* -------------------------------------------------------------------- chain
\* mining_reward is a float that is only ever halved: amounts of the issuance
\* schedule are exact binary fractions of a coin, counted in 1/unit coin.
\* Unit is the unit in which the rewards through MaxHalvings halvings are
\* whole numbers.
Unit == 2 ^ (MaxHalvings - 1)

\* Blockchain.get_current_mining_reward at store height h, in 1/unit coin.
mining_reward_at(h, unit) == (MiningReward * unit) \div (2 ^ (h \div HalvingInterval))

\* Blockchain.get_current_mining_reward at store height h, in whole coins.
get_current_mining_reward(h) == mining_reward_at(h, 1)

\* min(a, b)
Min(a, b) == IF a <= b THEN a ELSE b

RECURSIVE TotalMinedFrom_Inclusive(_, _, _, _)
\* The loop counting the block at next_halving in the period before it.
TotalMinedFrom_Inclusive(blocks_mined, current_block, current_reward, total) ==
    IF current_block > blocks_mined THEN total
    ELSE LET next_halving == ((current_block \div HalvingInterval) + 1) * HalvingInterval
             blocks_in_period == Min(next_halving - current_block + 1,
                                     blocks_mined - current_block + 1)
         IN TotalMinedFrom_Inclusive(blocks_mined, current_block + blocks_in_period,
                                     current_reward \div 2,
                                     total + blocks_in_period * current_reward)

RECURSIVE TotalMinedFrom(_, _, _, _)
\* The while loop of get_total_mined, one iteration per halving period.
TotalMinedFrom(blocks_mined, current_block, current_reward, total) ==
    IF current_block > blocks_mined THEN total
    ELSE LET next_halving == ((current_block \div HalvingInterval) + 1) * HalvingInterval
             blocks_in_period == Min(next_halving - current_block,
                                     blocks_mined - current_block + 1)
         IN TotalMinedFrom(blocks_mined, current_block + blocks_in_period,
                           current_reward \div 2,
                           total + blocks_in_period * current_reward)

\* Blockchain.get_total_mined at store height h, in 1/unit coin.
get_total_mined(h, unit) == TotalMinedFrom(h - 1, 1, MiningReward * unit, 0)

\* founder_address = None
NoFounder == "None"

\* get_circulating_supply taking max_supply for founder_allocation.
get_circulating_supply_WrongField(h, founder_address, unit) ==
    (IF founder_address # NoFounder THEN MaxSupply * unit ELSE 0) + get_total_mined(h, unit)

\* Blockchain.get_circulating_supply
get_circulating_supply(h, founder_address, unit) ==
    (IF founder_address # NoFounder THEN FounderAllocation * unit ELSE 0) + get_total_mined(h, unit)

\* Blockchain.get_remaining_supply
get_remaining_supply(h, founder_address, unit) ==
    MaxSupply * unit - get_circulating_supply(h, founder_address, unit)

\* verify_transaction_signature without the comparison of the address derived
\* from the public key with the UTXO's script_pubkey.
verify_transaction_signature_AnyOwner(mem, tx) ==
    \/ is_coinbase(tx)
    \/ \A i \in 1..Len(tx.inputs) :
          LET parts == tx.inputs[i].script_sig
          IN /\ Len(parts) = 2
             /\ has_utxo(mem, tx.inputs[i].txid, tx.inputs[i].vout)
             /\ verify_signature(parts[2], parts[1], get_signing_data(tx, i))

\* Blockchain.verify_transaction_signature against the UTXO map mem.
verify_transaction_signature(mem, tx) ==
    \/ is_coinbase(tx)
    \/ \A i \in 1..Len(tx.inputs) :
          LET parts == tx.inputs[i].script_sig
          IN /\ Len(parts) = 2
             /\ has_utxo(mem, tx.inputs[i].txid, tx.inputs[i].vout)
             /\ generate_address(parts[2]) =
                   mem[UtxoKey(tx.inputs[i].txid, tx.inputs[i].vout)].script_pubkey
             /\ verify_signature(parts[2], parts[1], get_signing_data(tx, i))

\* The scan comparing the pending transaction's own txid, not the txid its
\* input names, with the new input.
DoubleSpendInMempool_BySpender(pool, tx) ==
    \E p \in 1..Len(pool) : \E a \in 1..Len(pool[p].inputs) : \E c \in 1..Len(tx.inputs) :
        /\ pool[p].txid = tx.inputs[c].txid
        /\ pool[p].inputs[a].vout = tx.inputs[c].vout

\* The double-spend scan of add_transaction over the mempool.
DoubleSpendInMempool(pool, tx) ==
    \E p \in 1..Len(pool) : \E a \in 1..Len(pool[p].inputs) : \E c \in 1..Len(tx.inputs) :
        /\ pool[p].inputs[a].txid = tx.inputs[c].txid
        /\ pool[p].inputs[a].vout = tx.inputs[c].vout

\* The checks of add_transaction: the error message, "" when admitted.
add_transaction_error(mem, pool, tx) ==
    IF ~ verify_transaction_signature(mem, tx) THEN "Invalid signature"
    ELSE IF validate_transaction(mem, tx) # "" THEN validate_transaction(mem, tx)
    ELSE IF DoubleSpendInMempool(pool, tx) THEN "Double spend detected in mempool"
    ELSE ""

\* verify_transaction_signature: tx_input.script_sig = "" before the signing
\* image of input i is taken.
ClearScriptSig(tx, i) ==
    [tx EXCEPT !.inputs[i].script_sig = << Text("", << >>) >>]

\* The statement tx_input.script_sig = original_script_sig left out.
RestoreScriptSig_Skipped(tx, i, original_script_sig) == tx

\* verify_transaction_signature: tx_input.script_sig = original_script_sig.
RestoreScriptSig(tx, i, original_script_sig) ==
    [tx EXCEPT !.inputs[i].script_sig = original_script_sig]

RECURSIVE VerifyInputs(_, _, _)
\* The input loop of verify_transaction_signature from input i on, with its
\* writes to the transaction object: the result and the object afterwards.
VerifyInputs(mem, tx, i) ==
    IF i > Len(tx.inputs) THEN [ok |-> TRUE, tx |-> tx]
    ELSE LET parts == tx.inputs[i].script_sig
         IN IF \/ Len(parts) # 2
               \/ ~ has_utxo(mem, tx.inputs[i].txid, tx.inputs[i].vout)
            THEN [ok |-> FALSE, tx |-> tx]
            ELSE IF generate_address(parts[2]) #
                       mem[UtxoKey(tx.inputs[i].txid, tx.inputs[i].vout)].script_pubkey
            THEN [ok |-> FALSE, tx |-> tx]
            ELSE LET cleared == ClearScriptSig(tx, i)
                     signing_data == get_signing_data(cleared, i)
                     restored == RestoreScriptSig(cleared, i, parts)
                 IN IF ~ verify_signature(parts[2], parts[1], signing_data)
                    THEN [ok |-> FALSE, tx |-> restored]
                    ELSE VerifyInputs(mem, restored, i + 1)

\* A call of verify_transaction_signature on the transaction object tx.
VerifyTransactionObject(mem, tx) ==
    IF is_coinbase(tx) THEN [ok |-> TRUE, tx |-> tx] ELSE VerifyInputs(mem, tx, 1)

RECURSIVE ApplyAll(_, _, _)
\* is_chain_valid on the first block of the chain: process_transaction on the
\* temporary set for every transaction, the result ignored.
ApplyAll(temp, transactions, j) ==
    IF j > Len(transactions) THEN temp
    ELSE ApplyAll(process_transaction(temp, transactions[j]).S, transactions, j + 1)

RECURSIVE AuditTransactions(_, _, _, _)
\* The transaction loop of is_chain_valid from transaction j on: signatures
\* are verified by self.verify_transaction_signature, that is against the
\* live UTXO set `live`; validation and processing use the temporary set.
AuditTransactions(temp, live, transactions, j) ==
    IF j > Len(transactions) THEN [ok |-> TRUE, temp |-> temp, transactions |-> transactions]
    ELSE LET v == VerifyTransactionObject(live, transactions[j])
             txs1 == [transactions EXCEPT ![j] = v.tx]
             r == process_transaction(temp, v.tx)
         IN IF ~ v.ok THEN [ok |-> FALSE, temp |-> temp, transactions |-> txs1]
            ELSE IF ~ is_coinbase(v.tx) /\ validate_transaction(temp.mem, v.tx) # ""
            THEN [ok |-> FALSE, temp |-> temp, transactions |-> txs1]
            ELSE IF ~ r.ok THEN [ok |-> FALSE, temp |-> r.S, transactions |-> txs1]
            ELSE AuditTransactions(r.S, live, txs1, j + 1)

RECURSIVE AuditBlocks(_, _, _, _)
\* The block loop of is_chain_valid from position i of the chain on.
AuditBlocks(ch, i, temp, live) ==
    IF i > Len(ch) THEN [ok |-> TRUE, chain |-> ch]
    ELSE IF i = 1 THEN AuditBlocks(ch, 2, ApplyAll(temp, ch[1].transactions, 1), live)
    ELSE IF \/ ~ StartsWithZeros(ch[i].hash, Difficulty)
            \/ ch[i].hash # calculate_hash(ch[i])
            \/ ch[i].previous_hash # ch[i - 1].hash
            \/ ~ verify_merkle_root(ch[i])
    THEN [ok |-> FALSE, chain |-> ch]
    ELSE LET a == AuditTransactions(temp, live, ch[i].transactions, 1)
             ch1 == [ch EXCEPT ![i].transactions = a.transactions]
         IN IF ~ a.ok THEN [ok |-> FALSE, chain |-> ch1]
            ELSE AuditBlocks(ch1, i + 1, a.temp, live)

\* Blockchain.is_chain_valid on the chain ch of a node whose live UTXO set is
\* `live`: the value returned and the chain's objects after the call.  The
\* temporary UTXOSet has no store.
is_chain_valid(ch, live) == AuditBlocks(ch, 1, [mem |-> << >>, db |-> << >>], live)

\* 0.00000001, the dust threshold of create_transaction: amounts are whole
\* coins, a change exceeds it exactly when it is positive.
DustThreshold == 0

\* The value of a create_transaction call that returned None.
NoTransaction == Transaction(<< >>, << >>, 0)

\* The orders in which a dict holding the keys ks can list them.
Orders(ks) ==
    {o \in [1..Cardinality(ks) -> ks] : \A a, b \in 1..Cardinality(ks) : o[a] = o[b] => a = b}

RECURSIVE SelectUtxos(_, _, _, _, _, _)
\* The selection loop of create_transaction over sender_utxos (the keys of
\* the sender's UTXOs, in the order get_utxos_for_address lists them).
SelectUtxos(mem, sender_utxos, j, selected_utxos, total_input, amount) ==
    IF j > Len(sender_utxos)
    THEN [selected_utxos |-> selected_utxos, total_input |-> total_input]
    ELSE LET sel == Append(selected_utxos, sender_utxos[j])
             tot == total_input + mem[sender_utxos[j]].amount
         IN IF tot >= amount THEN [selected_utxos |-> sel, total_input |-> tot]
            ELSE SelectUtxos(mem, sender_utxos, j + 1, sel, tot, amount)

RECURSIVE SignInputs_Rehash(_, _, _, _)
\* The signing loop recalculating the txid after each signature.
SignInputs_Rehash(tx, k, pk, i) ==
    IF i > Len(tx.inputs) THEN tx
    ELSE LET signed == [tx EXCEPT !.inputs[i].script_sig =
                                      << sign(k, get_signing_data(tx, i)), pk >>]
         IN SignInputs_Rehash([signed EXCEPT !.txid = calculate_txid(signed)], k, pk, i + 1)

RECURSIVE SignInputs(_, _, _, _)
\* The signing loop of create_transaction from input i on: each input is
\* signed over the signing image of the transaction as it is at that moment.
SignInputs(tx, k, pk, i) ==
    IF i > Len(tx.inputs) THEN tx
    ELSE SignInputs([tx EXCEPT !.inputs[i].script_sig =
                                   << sign(k, get_signing_data(tx, i)), pk >>],
                    k, pk, i + 1)

\* Blockchain.create_transaction for the wallet with private key k, whose
\* UTXOs are listed in the order sender_utxos, at time now: "None" or the
\* transaction.
create_transaction(mem, sender_utxos, k, recipient_address, amount, now) ==
    LET sel == SelectUtxos(mem, sender_utxos, 1, << >>, 0, amount)
        inputs == [j \in 1..Len(sel.selected_utxos) |->
                     TxInput(sel.selected_utxos[j][1], sel.selected_utxos[j][2],
                             << Text("", << >>) >>)]
        change == sel.total_input - amount
        outputs == << TxOutput(amount, recipient_address) >> \o
                   (IF change > DustThreshold
                    THEN << TxOutput(change, generate_address(k)) >> ELSE << >>)
    IN IF sel.total_input < amount
       THEN [returned |-> "None", tx |-> NoTransaction]
       ELSE [returned |-> "tx", tx |-> SignInputs(Transaction(inputs, outputs, now), k, k, 1)]

\* The checks of add_block without the Merkle root check.
add_block_checks_NoMerkle(tip, b) ==
    /\ StartsWithZeros(b.hash, Difficulty)
    /\ b.previous_hash = tip.hash

\* The three checks at the head of add_block against the tip.
add_block_checks(tip, b) ==
    /\ StartsWithZeros(b.hash, Difficulty)
    /\ b.previous_hash = tip.hash
    /\ verify_merkle_root(b)

\* ------------------------------------------------------------------ inputs
\* The genesis coinbase of create_genesis_block with a founder address.
GenesisTx == create_coinbase(1, "aF", FounderAllocation, 0)

\* The coinbase of a work template for miner aM at height h.
CbM(h) == create_coinbase(100 + h, "aM", get_current_mining_reward(h), h)

\* A coinbase paying more than the scheduled reward.
CbBig(h) == create_coinbase(200 + h, "aM", get_current_mining_reward(h) + 1, h)

\* A second coinbase, for the founder.
CbF(h) == create_coinbase(300 + h, "aF", get_current_mining_reward(h), h)

\* The founder pays 10 to aM out of the genesis output, with change.
TxPay ==
    SignedTx(2, << << 1, 0 >> >>,
             << TxOutput(10, "aM"), TxOutput(FounderAllocation - 10, "aF") >>, "kF", "kF")

\* The founder spends the genesis output a second time.
TxPay2 ==
    SignedTx(3, << << 1, 0 >> >>,
             << TxOutput(20, "aM"), TxOutput(FounderAllocation - 20, "aF") >>, "kF", "kF")

\* aM spends the founder's genesis output, signing with its own key.
TxSteal ==
    SignedTx(4, << << 1, 0 >> >>, << TxOutput(FounderAllocation, "aM") >>, "kM", "kM")

\* The founder spends the genesis output into a larger output.
TxInflate ==
    SignedTx(5, << << 1, 0 >> >>, << TxOutput(FounderAllocation + 1, "aF") >>, "kF", "kF")

\* A spend of an outpoint that no transaction created.
TxOrphan ==
    SignedTx(6, << << 9, 0 >> >>, << TxOutput(5, "aM") >>, "kF", "kF")

\* aM spends output 0 of TxPay.
TxChain ==
    SignedTx(7, << << 2, 0 >> >>, << TxOutput(10, "aF") >>, "kM", "kM")

\* aM spends the founder's genesis output in a transaction submitted with the
\* txid of the genesis coinbase, so that its output has the key it spends.
TxRespend ==
    SignedTx(1, << << 1, 0 >> >>, << TxOutput(FounderAllocation, "aM") >>, "kM", "kM")

\* A spend of the genesis output carrying the founder's public key and a
\* signature made with aM's key.
TxBadSig ==
    SignedTx(8, << << 1, 0 >> >>, << TxOutput(FounderAllocation, "aM") >>, "kM", "kF")

\* The founder spends the genesis output into an output larger than the
\* input and a negative output; the amounts sum to the input.
TxNegative ==
    SignedTx(10, << << 1, 0 >> >>,
             << TxOutput(FounderAllocation + 5, "aM"), TxOutput(-5, "aF") >>, "kF", "kF")

\* A coinbase-shaped transaction handed to add_transaction.
TxMint == create_coinbase(11, "aM", MiningReward, 0)

\* Transactions offered to add_transaction.
CandidateTxs ==
    {TxPay, TxPay2, TxSteal, TxInflate, TxOrphan, TxChain, TxBadSig, TxNegative}

\* Transaction lists of the blocks a miner submits at height h with the
\* mempool pool: the work template first.
CandidateTxLists(h, pool) ==
    { << CbM(h) >> \o pool,
      << CbM(h) >>,
      << CbM(h), TxPay, TxChain >>,
      << CbM(h), TxSteal >>,
      << CbM(h), TxInflate >>,
      << CbM(h), TxOrphan >>,
      << CbM(h), TxRespend >>,
      << CbBig(h) >>,
      << CbM(h), CbF(h) >>,
      << >> }

\* A block as api.submit_mined_block rebuilds it from the request: every
\* header field and the hash are the submitted values.
SubmittedBlock(index, transactions, previous_hash, difficulty, nonce, merkle_root, hash) ==
    [index |-> index, timestamp |-> 0, transactions |-> transactions,
     previous_hash |-> previous_hash, difficulty |-> difficulty,
     nonce |-> nonce, merkle_root |-> merkle_root, hash |-> hash]

\* A submitted hash that was not derived from the header.
ForgedHash == << Difficulty, 99 >>

\* Blocks offered to add_block when the store height is h and the chain is
\* ch: the mined candidates, and the work template with one field off.
CandidateBlocks(h, ch, pool) ==
    LET tip == ch[Len(ch)]
        t0  == MinedBlock(h, << CbM(h) >>, tip.hash, Difficulty)
        bad == [t0 EXCEPT !.merkle_root = << 999 >>]
        low == [t0 EXCEPT !.nonce = 0]
    IN  { MinedBlock(h, l, tip.hash, Difficulty) : l \in CandidateTxLists(h, pool) }
        \cup { MinedBlock(0, << CbM(h) >>, tip.hash, Difficulty) }
        \cup { MinedBlock(h, << CbM(h) >>, ch[i].hash, Difficulty) : i \in 1..Len(ch) }
        \cup { [bad EXCEPT !.hash = calculate_hash(bad)],
               [low EXCEPT !.hash = calculate_hash(low)],
               [t0 EXCEPT !.hash = ForgedHash] }

\* ------------------------------------------------------------------- state
VARIABLES
    chain,       \* Blockchain.chain
    utxos,       \* Blockchain.utxo_set.utxos
    pending,     \* Blockchain.pending_transactions
    dbBlocks,    \* table blocks:  block_index -> row
    dbTxs,       \* tables transactions, tx_inputs, tx_outputs: txid -> row
    dbUtxos,     \* table utxos: (txid, vout) -> row
    pc,          \* position of each request thread in its handler
    blk,         \* the block a thread is submitting
    txi,         \* index of the next transaction in the loop of add_block
    ptx,         \* the transaction a thread is submitting
    result,      \* the value add_block / add_transaction returned to the thread
    pre,         \* history: the ledger at the moment the thread's call began
    audit,       \* history: what the transactions applied by the call found
    issuance,    \* a ledger followed through the halvings: height, coins minted, supply figures
    created,     \* the request and the value of a create_transaction call of each thread
    work,        \* per thread: the work template get_mining_work is building
    merkle,      \* a Merkle tree, a proof taken from it and the verifier's answer
    conn,        \* per peer connection: the message read, the response
    metadata,    \* the rows of the store's metadata table: key -> value
    mining       \* whether each thread is inside mine_pending_transactions

vars == << chain, utxos, pending, dbBlocks, dbTxs, dbUtxos,
           pc, blk, txi, ptx, result, pre, audit, issuance, created, work, merkle, conn, metadata, mining >>

NoBlock == SubmittedBlock(-1, << >>, << >>, 0, 0, << >>, << >>)
NoTx == [txid |-> -1, version |-> 1, locktime |-> 0, timestamp |-> 0,
         inputs |-> << >>, outputs |-> << >>]
NoSnapshot == [chain |-> << >>, utxos |-> << >>, pending |-> << >>,
               dbBlocks |-> << >>, dbTxs |-> << >>, dbUtxos |-> << >>]
NoAudit == [orphan |-> FALSE, badsig |-> FALSE, inflating |-> FALSE, spent |-> {}]

NoWork == [block_index |-> -1, previous_hash |-> << >>, reward |-> 0,
           transactions |-> << >>, mempool |-> << >>]
NoMerkle == [txids |-> << >>, tx_index |-> 0, root |-> << 0 >>, proof |-> << >>,
             stage |-> "none", changed |-> "none", position |-> 0, answer |-> FALSE]

\* Peer connections the node handles at a time, each in a thread of its own.
MaxConnections == 2
Connections == 1..MaxConnections

\* A message of the peer protocol, and the response to it (None: nothing is
\* sent back).
Message(type, block, transaction, start_index) ==
    [type |-> type, block |-> block, transaction |-> transaction, start_index |-> start_index]
NoMessage == Message("", NoBlock, NoTx, 0)
NoResponse == [type |-> "None", blocks |-> << >>]
NoConnection == [stage |-> "closed", message |-> NoMessage, response |-> NoResponse]

Snapshot == [chain |-> chain, utxos |-> utxos, pending |-> pending,
             dbBlocks |-> dbBlocks, dbTxs |-> dbTxs, dbUtxos |-> dbUtxos]

\* Blockchain.__init__ on an empty store with a founder address:
\* create_genesis_block.
GenesisBlock == MinedBlock(0, << GenesisTx >>, ZeroHash, Difficulty)

GenesisUtxos == process_transaction([mem |-> << >>, db |-> << >>], GenesisTx).S

\* The transaction of the genesis block: the founder allocation, or a
\* coinbase of 0 to the recipient "GENESIS" when there is no founder address.
genesis_transaction(founder_address) ==
    IF founder_address # NoFounder
    THEN create_coinbase(1, founder_address, FounderAllocation, 0)
    ELSE create_coinbase(13, "GENESIS", 0, 0)

\* create_genesis_block without the db.save_block call.
create_genesis_block_Unsaved(founder_address) ==
    LET genesis_block == MinedBlock(0, << genesis_transaction(founder_address) >>,
                                    ZeroHash, Difficulty)
        S == process_transaction([mem |-> << >>, db |-> << >>],
                                 genesis_transaction(founder_address)).S
    IN [chain |-> << genesis_block >>, utxos |-> S.mem, pending |-> << >>,
        dbBlocks |-> << >>, dbTxs |-> << >>, dbUtxos |-> S.db]

\* Blockchain.create_genesis_block on an empty store: the ledger it leaves.
create_genesis_block(founder_address) ==
    LET genesis_block == MinedBlock(0, << genesis_transaction(founder_address) >>,
                                    ZeroHash, Difficulty)
        S == process_transaction([mem |-> << >>, db |-> << >>],
                                 genesis_transaction(founder_address)).S
        saved == save_block(<< >>, << >>, genesis_block)
    IN [chain |-> << genesis_block >>, utxos |-> S.mem, pending |-> << >>,
        dbBlocks |-> saved.blocks, dbTxs |-> saved.txs, dbUtxos |-> S.db]

\* The ledger after construction.
InitLedger ==
    /\ chain = << GenesisBlock >>
    /\ utxos = GenesisUtxos.mem
    /\ pending = << >>
    /\ dbBlocks = save_block(<< >>, << >>, GenesisBlock).blocks
    /\ dbTxs = save_block(<< >>, << >>, GenesisBlock).txs
    /\ dbUtxos = GenesisUtxos.db
    /\ pc = [t \in Threads |-> "idle"]
    /\ blk = [t \in Threads |-> NoBlock]
    /\ txi = [t \in Threads |-> 0]
    /\ ptx = [t \in Threads |-> NoTx]
    /\ result = [t \in Threads |-> "none"]
    /\ pre = [t \in Threads |-> NoSnapshot]
    /\ audit = [t \in Threads |-> NoAudit]

\* No create_transaction call has been made.
NoCreate == [sender |-> "", recipient_address |-> "", amount |-> 0,
             returned |-> "", tx |-> NoTransaction]

\* No supply figures have been asked for.
NoInfo == [mining_reward |-> -1, total_mined |-> -1,
           circulating_supply |-> -1, remaining_supply |-> -1]

\* The issuance view of a ledger that holds its genesis block only: store
\* height 1, nothing minted after genesis.
GenesisIssuance(founder_address) ==
    [height |-> 1, minted |-> 0, founder_address |-> founder_address, info |-> NoInfo]

Init ==
    /\ InitLedger
    /\ issuance = GenesisIssuance("aF")
    /\ created = [t \in Threads |-> NoCreate]
    /\ work = [t \in Threads |-> NoWork]
    /\ merkle = NoMerkle
    /\ conn = [c \in Connections |-> NoConnection]
    /\ metadata = << >>
    /\ mining = [t \in Threads |-> FALSE]

\* ----------------------------------------------------------------- actions
AllIdle == \A t \in Threads : pc[t] = "idle"

\* api.submit_mined_block: the request is parsed and add_block is entered;
\* add_block checks proof of work, previous hash (its one read of the tip)
\* and Merkle root.
SubmitBlock(t, b) ==
    /\ pc[t] = "idle"
    /\ Len(chain) < MaxChain
    /\ blk' = [blk EXCEPT ![t] = b]
    /\ pre' = [pre EXCEPT ![t] = Snapshot]
    /\ IF ~ add_block_checks(chain[Len(chain)], b)
       THEN /\ pc' = [pc EXCEPT ![t] = "ret"]
            /\ result' = [result EXCEPT ![t] = "rejected"]
            /\ txi' = txi
       ELSE /\ pc' = [pc EXCEPT ![t] = IF b.transactions = << >> THEN "ab_commit" ELSE "ab_tx"]
            /\ txi' = [txi EXCEPT ![t] = 1]
            /\ result' = result
    /\ UNCHANGED << chain, utxos, pending, dbBlocks, dbTxs, dbUtxos, ptx, audit, issuance, created, work, merkle, conn, metadata, mining >>

\* What the transaction tx finds in the UTXO map mem when it is applied.
Audit(a, mem, tx, pos) ==
    IF is_coinbase(tx) THEN a
    ELSE LET present == \A j \in 1..Len(tx.inputs) :
                            has_utxo(mem, tx.inputs[j].txid, tx.inputs[j].vout)
         IN [orphan    |-> a.orphan \/ ~ present,
             badsig    |-> a.badsig \/ ~ verify_transaction_signature(mem, tx),
             inflating |-> a.inflating \/
                             (present /\ SumInputs(mem, tx.inputs, 1) < SumAmounts(tx.outputs, 1)),
             spent     |-> a.spent \cup
                             { << UtxoKey(tx.inputs[j].txid, tx.inputs[j].vout), pos >> :
                                  j \in 1..Len(tx.inputs) }]

\* add_block: one turn of the loop over block.transactions.
AbTx(t) ==
    /\ pc[t] = "ab_tx"
    /\ LET tx == blk[t].transactions[txi[t]]
           r  == process_transaction([mem |-> utxos, db |-> dbUtxos], tx)
       IN /\ utxos' = r.S.mem
          /\ dbUtxos' = r.S.db
          /\ audit' = [audit EXCEPT ![t] = Audit(audit[t], utxos, tx, txi[t])]
          /\ IF ~ r.ok
             THEN /\ pc' = [pc EXCEPT ![t] = "ret"]
                  /\ result' = [result EXCEPT ![t] = "rejected"]
                  /\ txi' = txi
             ELSE /\ pc' = [pc EXCEPT ![t] =
                              IF txi[t] = Len(blk[t].transactions) THEN "ab_commit" ELSE "ab_tx"]
                  /\ txi' = [txi EXCEPT ![t] = txi[t] + 1]
                  /\ result' = result
    /\ UNCHANGED << chain, pending, dbBlocks, dbTxs, blk, ptx, pre, issuance, created, work, merkle, conn, metadata, mining >>

\* add_block: chain.append(block), db.save_block(block) (its result is not
\* looked at), db.save_utxo_set (does nothing), return True. The caller is
\* api.submit_mined_block or mine_pending_transactions.
AbCommit(t) ==
    /\ pc[t] = "ab_commit"
    /\ chain' = Append(chain, blk[t])
    /\ dbBlocks' = save_block(dbBlocks, dbTxs, blk[t]).blocks
    /\ dbTxs' = save_block(dbBlocks, dbTxs, blk[t]).txs
    /\ result' = [result EXCEPT ![t] = "accepted"]
    /\ pc' = [pc EXCEPT ![t] = IF mining[t] THEN "mp_clear" ELSE "sb_prune"]
    /\ UNCHANGED << utxos, pending, dbUtxos, blk, txi, ptx, pre, audit, issuance, created, work, merkle, conn, metadata, mining >>

\* The mempool after api.submit_mined_block dropped the transactions whose
\* txid is that of a non-coinbase transaction of the block.
PruneMempool(pool, b) ==
    LET included == { b.transactions[i].txid :
                        i \in { j \in 1..Len(b.transactions) : ~ is_coinbase(b.transactions[j]) } }
        keep(tx) == tx.txid \notin included
    IN SelectSeq(pool, keep)

\* api.submit_mined_block after add_block returned True.
SbPrune(t) ==
    /\ pc[t] = "sb_prune"
    /\ pending' = PruneMempool(pending, blk[t])
    /\ pc' = [pc EXCEPT ![t] = "ret"]
    /\ UNCHANGED << chain, utxos, dbBlocks, dbTxs, dbUtxos, blk, txi, ptx, result, pre, audit, issuance, created, work, merkle, conn, metadata, mining >>

\* Blockchain.mine_pending_transactions(miner_address) up to
\* block.mine_block(): the block of the stored height on the in-memory tip,
\* holding the coinbase followed by the mempool as it is read here.
MineBegin(t) ==
    /\ pc[t] = "idle"
    /\ Len(chain) < MaxChain
    /\ LET actual_height == get_block_count(dbBlocks)
       IN blk' = [blk EXCEPT ![t] =
                    MinedBlock(actual_height, << CbM(actual_height) >> \o pending,
                               chain[Len(chain)].hash, Difficulty)]
    /\ mining' = [mining EXCEPT ![t] = TRUE]
    /\ pc' = [pc EXCEPT ![t] = "mp_add"]
    /\ UNCHANGED << chain, utxos, pending, dbBlocks, dbTxs, dbUtxos, txi, ptx, result, pre, audit, issuance, created, work, merkle, conn, metadata >>

\* mine_pending_transactions: self.add_block(block) is entered once the
\* block is mined; add_block checks it against the tip.
MineAddBlock(t) ==
    /\ pc[t] = "mp_add"
    /\ pre' = [pre EXCEPT ![t] = Snapshot]
    /\ IF ~ add_block_checks(chain[Len(chain)], blk[t])
       THEN /\ pc' = [pc EXCEPT ![t] = "ret"]
            /\ result' = [result EXCEPT ![t] = "rejected"]
            /\ txi' = txi
       ELSE /\ pc' = [pc EXCEPT ![t] = "ab_tx"]
            /\ txi' = [txi EXCEPT ![t] = 1]
            /\ result' = result
    /\ UNCHANGED << chain, utxos, pending, dbBlocks, dbTxs, dbUtxos, blk, ptx, audit, issuance, created, work, merkle, conn, metadata, mining >>

\* mine_pending_transactions after add_block returned True:
\* self.pending_transactions = []; return True.
MineClear(t) ==
    /\ pc[t] = "mp_clear"
    /\ pending' = << >>
    /\ pc' = [pc EXCEPT ![t] = "ret"]
    /\ UNCHANGED << chain, utxos, dbBlocks, dbTxs, dbUtxos, blk, txi, ptx, result, pre, audit, issuance, created, work, merkle, conn, metadata, mining >>

\* add_transaction is entered with transaction tx: signatures, UTXO
\* validation and the scan of the mempool.
SubmitTx(t, tx) ==
    /\ pc[t] = "idle"
    /\ Len(pending) < MaxPending
    /\ ptx' = [ptx EXCEPT ![t] = tx]
    /\ pre' = [pre EXCEPT ![t] = Snapshot]
    /\ LET err == add_transaction_error(utxos, pending, tx)
       IN IF err # ""
          THEN /\ pc' = [pc EXCEPT ![t] = "ret"]
               /\ result' = [result EXCEPT ![t] = err]
          ELSE /\ pc' = [pc EXCEPT ![t] = "at_append"]
               /\ result' = result
    /\ UNCHANGED << chain, utxos, pending, dbBlocks, dbTxs, dbUtxos, blk, txi, audit, issuance, created, work, merkle, conn, metadata, mining >>

\* add_transaction: pending_transactions.append(transaction); return True, "".
AtAppend(t) ==
    /\ pc[t] = "at_append"
    /\ pending' = Append(pending, ptx[t])
    /\ result' = [result EXCEPT ![t] = "admitted"]
    /\ pc' = [pc EXCEPT ![t] = "ret"]
    /\ UNCHANGED << chain, utxos, dbBlocks, dbTxs, dbUtxos, blk, txi, ptx, pre, audit, issuance, created, work, merkle, conn, metadata, mining >>

\* The handler returns its response.
Return(t) ==
    /\ pc[t] = "ret"
    /\ pc' = [pc EXCEPT ![t] = "idle"]
    /\ blk' = [blk EXCEPT ![t] = NoBlock]
    /\ txi' = [txi EXCEPT ![t] = 0]
    /\ ptx' = [ptx EXCEPT ![t] = NoTx]
    /\ result' = [result EXCEPT ![t] = "none"]
    /\ pre' = [pre EXCEPT ![t] = NoSnapshot]
    /\ audit' = [audit EXCEPT ![t] = NoAudit]
    /\ created' = [created EXCEPT ![t] = NoCreate]
    /\ work' = [work EXCEPT ![t] = NoWork]
    /\ mining' = [mining EXCEPT ![t] = FALSE]
    /\ UNCHANGED << chain, utxos, pending, dbBlocks, dbTxs, dbUtxos, issuance, merkle, conn, metadata >>

\* api.get_mining_work: actual_height = blockchain.db.get_block_count().
GetWork(t) ==
    /\ pc[t] = "idle"
    /\ work' = [work EXCEPT ![t] = [NoWork EXCEPT !.block_index = get_block_count(dbBlocks)]]
    /\ pc' = [pc EXCEPT ![t] = "gw_latest"]
    /\ UNCHANGED << chain, utxos, pending, dbBlocks, dbTxs, dbUtxos, blk, txi, ptx, result, pre, audit, issuance, created, merkle, conn, metadata, mining >>

\* latest_block = blockchain.db.get_latest_block_from_db() or
\* blockchain.get_latest_block()
GwLatest(t) ==
    /\ pc[t] = "gw_latest"
    /\ LET latest_block == IF DOMAIN dbBlocks # {}
                           THEN get_latest_block_from_db(dbBlocks, dbTxs)
                           ELSE chain[Len(chain)]
       IN work' = [work EXCEPT ![t].previous_hash = latest_block.hash]
    /\ pc' = [pc EXCEPT ![t] = "gw_reward"]
    /\ UNCHANGED << chain, utxos, pending, dbBlocks, dbTxs, dbUtxos, blk, txi, ptx, result, pre, audit, issuance, created, merkle, conn, metadata, mining >>

\* reward = blockchain.get_current_mining_reward(), which reads the height
\* of the store again.
GwReward(t) ==
    /\ pc[t] = "gw_reward"
    /\ work' = [work EXCEPT ![t].reward = get_current_mining_reward(get_block_count(dbBlocks))]
    /\ pc' = [pc EXCEPT ![t] = "gw_txs"]
    /\ UNCHANGED << chain, utxos, pending, dbBlocks, dbTxs, dbUtxos, blk, txi, ptx, result, pre, audit, issuance, created, merkle, conn, metadata, mining >>

\* transactions = [coinbase_tx] + blockchain.pending_transactions, and the
\* response; mempool records the list that was read.
GwTxs(t) ==
    /\ pc[t] = "gw_txs"
    /\ LET coinbase_tx == create_coinbase(100 + work[t].block_index, "aM",
                                          work[t].reward, work[t].block_index)
       IN work' = [work EXCEPT ![t].transactions = << coinbase_tx >> \o pending,
                               ![t].mempool = pending]
    /\ result' = [result EXCEPT ![t] = "work"]
    /\ pc' = [pc EXCEPT ![t] = "ret"]
    /\ UNCHANGED << chain, utxos, pending, dbBlocks, dbTxs, dbUtxos, blk, txi, ptx, pre, audit, issuance, created, merkle, conn, metadata, mining >>

\* One step of a running get_mining_work.
WorkStep(t) ==
    \/ GwLatest(t)
    \/ GwReward(t)
    \/ GwTxs(t)

\* The node is stopped and started again on the same store:
\* Blockchain.__init__ takes the load_from_db branch.
Restart ==
    /\ AllIdle
    /\ get_block_count(dbBlocks) # 0
    /\ chain' = load_recent_blocks(dbBlocks, dbTxs, RecentBlocks)
    /\ utxos' = load_utxo_set(dbUtxos)
    /\ pending' = << >>
    /\ UNCHANGED << dbBlocks, dbTxs, dbUtxos, pc, blk, txi, ptx, result, pre, audit, issuance, created, work, merkle, conn, metadata, mining >>

\* api.validate_blockchain: blockchain.is_chain_valid().
ValidateChain(t) ==
    /\ pc[t] = "idle"
    /\ pre' = [pre EXCEPT ![t] = Snapshot]
    /\ chain' = is_chain_valid(chain, utxos).chain
    /\ result' = [result EXCEPT ![t] = IF is_chain_valid(chain, utxos).ok THEN "valid" ELSE "invalid"]
    /\ pc' = [pc EXCEPT ![t] = "ret"]
    /\ UNCHANGED << utxos, pending, dbBlocks, dbTxs, dbUtxos, blk, txi, ptx, audit, issuance, created, work, merkle, conn, metadata, mining >>

\* Amounts asked of create_transaction.
CreateAmounts == {10, 50, 60}

\* Blockchain.create_transaction(sender_wallet, recipient_address, amount),
\* the first call of api.new_transaction; the dict of the UTXO set lists the
\* sender's UTXOs in some order.
CreateTransaction(t, k, recipient_address, amount) ==
    /\ pc[t] = "idle"
    /\ pre' = [pre EXCEPT ![t] = Snapshot]
    /\ \E sender_utxos \in Orders({key \in DOMAIN utxos :
                                     utxos[key].script_pubkey = generate_address(k)}) :
          created' = [created EXCEPT ![t] =
              [sender |-> k, recipient_address |-> recipient_address, amount |-> amount,
               returned |-> create_transaction(utxos, sender_utxos, k,
                                               recipient_address, amount, 0).returned,
               tx |-> create_transaction(utxos, sender_utxos, k,
                                         recipient_address, amount, 0).tx]]
    /\ pc' = [pc EXCEPT ![t] = "ret"]
    /\ UNCHANGED << chain, utxos, pending, dbBlocks, dbTxs, dbUtxos,
                    blk, txi, ptx, result, audit, issuance, work, merkle, conn, metadata, mining >>

\* One step of a handler that has been entered.
Step(t) ==
    \/ AbTx(t)
    \/ AbCommit(t)
    \/ SbPrune(t)
    \/ AtAppend(t)
    \/ Return(t)

\* Requests are served one at a time.
Next ==
    \/ \E b \in CandidateBlocks(get_block_count(dbBlocks), chain, pending) :
          AllIdle /\ SubmitBlock(1, b)
    \/ \E tx \in CandidateTxs : AllIdle /\ SubmitTx(1, tx)
    \/ AllIdle /\ ValidateChain(1)
    \/ \E k \in Keys : \E a \in CreateAmounts :
          AllIdle /\ CreateTransaction(1, k, generate_address(CHOOSE o \in Keys : o # k), a)
    \/ \E t \in Threads : Step(t)
    \/ Restart

Spec == Init /\ [][Next]_vars

\* Requests are served by concurrent threads (no lock is taken by the
\* handlers): two miners submit their blocks for the work template, two
\* clients their payments.
ConcurrentBlocks(h, ch, pool) ==
    { MinedBlock(h, << cb >> \o pool, ch[Len(ch)].hash, Difficulty) : cb \in {CbM(h), CbF(h)} }

ConcurrentTxs == {TxPay, TxPay2}

NextConc ==
    \/ \E t \in Threads :
          \E b \in ConcurrentBlocks(get_block_count(dbBlocks), chain, pending) :
              Len(chain) < ConcMaxChain /\ SubmitBlock(t, b)
    \/ \E t \in Threads : \E tx \in ConcurrentTxs :
          Len(pending) < ConcMaxPending /\ SubmitTx(t, tx)
    \/ \E t \in Threads : Step(t)
    \/ Restart

SpecConc == Init /\ [][NextConc]_vars

\* A miner's life with the mempool: clients hand payments and a
\* coinbase-shaped transaction to add_transaction, the miner submits the
\* block of the work template or a block of its coinbase alone.
MempoolTxs == {TxPay, TxPay2, TxChain, TxMint}

TemplateBlocks(h, ch, pool) ==
    { MinedBlock(h, l, ch[Len(ch)].hash, Difficulty) :
        l \in { << CbM(h) >> \o pool, << CbM(h) >> } }

NextMempool ==
    \/ \E b \in TemplateBlocks(get_block_count(dbBlocks), chain, pending) :
          AllIdle /\ SubmitBlock(1, b)
    \/ \E tx \in MempoolTxs : AllIdle /\ SubmitTx(1, tx)
    \/ \E t \in Threads : Step(t)

SpecMempool == Init /\ [][NextMempool]_vars

\* The node mines locally in one thread while the other threads serve
\* add_transaction; no lock is taken by either.
MineStep(t) ==
    \/ MineAddBlock(t)
    \/ AbTx(t)
    \/ AbCommit(t)
    \/ MineClear(t)
    \/ AtAppend(t)
    \/ Return(t)

NextMine ==
    \/ MineBegin(1)
    \/ \E tx \in ConcurrentTxs : SubmitTx(2, tx)
    \/ \E t \in Threads : MineStep(t)

SpecMine == Init /\ [][NextMine]_vars

\* The founder names the genesis output in two inputs and pays out twice its
\* amount.
TxDouble ==
    SignedTx(12, << << 1, 0 >>, << 1, 0 >> >>,
             << TxOutput(2 * FounderAllocation, "aF") >>, "kF", "kF")

\* Clients hand a payment and the transaction naming one outpoint twice to
\* add_transaction; the miner submits the blocks of the work template.
DuplicateTxs == {TxPay, TxDouble}

NextDuplicate ==
    \/ \E b \in TemplateBlocks(get_block_count(dbBlocks), chain, pending) :
          AllIdle /\ SubmitBlock(1, b)
    \/ \E tx \in DuplicateTxs : AllIdle /\ SubmitTx(1, tx)
    \/ \E t \in Threads : Step(t)

SpecDuplicate == Init /\ [][NextDuplicate]_vars

\* Amounts a client may post to /transactions/new: float(data['amount']) is
\* passed to create_transaction unchecked, zero and negative amounts included.
PostedAmounts == {-5, 0, 10}

\* Clients post payments of any amount from either wallet, between template
\* blocks and transactions; requests are served one at a time.
NextCreate ==
    \/ \E b \in TemplateBlocks(get_block_count(dbBlocks), chain, pending) :
          AllIdle /\ SubmitBlock(1, b)
    \/ \E tx \in ConcurrentTxs : AllIdle /\ SubmitTx(1, tx)
    \/ \E k \in Keys : \E a \in PostedAmounts :
          AllIdle /\ CreateTransaction(1, k, generate_address(CHOOSE o \in Keys : o # k), a)
    \/ \E t \in Threads : Step(t)

SpecCreate == Init /\ [][NextCreate]_vars

\* A miner asks for work while another miner's block for the same template
\* and clients' payments are being served.
NextWork ==
    \/ \E b \in TemplateBlocks(get_block_count(dbBlocks), chain, pending) :
          SubmitBlock(1, b)
    \/ \E tx \in ConcurrentTxs : SubmitTx(1, tx)
    \/ GetWork(2)
    \/ \E t \in Threads : Step(t)
    \/ \E t \in Threads : WorkStep(t)

SpecWork == Init /\ [][NextWork]_vars

\* ------------------------------------------------------------ Merkle proofs
\* Longest list of txids a tree is built over, and the txids it is built of.
MaxTxids == 4
TxidValues == 1..MaxTxids

\* The lists of at least one and at most n pairwise distinct txids.
TxidLists(n) ==
    UNION { { txids \in [1..l -> { << v >> : v \in TxidValues }] :
                \A i, j \in 1..l : txids[i] = txids[j] => i = j } : l \in 1..n }

\* Hashes put in the place of a sibling hash of a proof.
OtherHashes == { << v >> : v \in TxidValues } \cup { << 0 >>, << << 1 >>, << 2 >> >> }

\* tree = MerkleTree(txids); proof = tree.get_proof(tx_index)
GetProof ==
    /\ merkle.stage = "built"
    /\ merkle' = [merkle EXCEPT !.proof = get_proof(MerkleTree(merkle.txids), merkle.tx_index),
                                !.stage = "proved"]
    /\ UNCHANGED << chain, utxos, pending, dbBlocks, dbTxs, dbUtxos, pc, blk, txi, ptx, result, pre, audit, issuance, created, work, conn, metadata, mining >>

\* The sibling hash of element k of the proof is replaced by another hash.
ChangeSibling(k, h) ==
    /\ merkle.stage = "proved"
    /\ k \in 1..Len(merkle.proof)
    /\ h # merkle.proof[k][1]
    /\ merkle' = [merkle EXCEPT !.proof[k] = << h, merkle.proof[k][2] >>,
                                !.stage = "changed", !.changed = "hash", !.position = k]
    /\ UNCHANGED << chain, utxos, pending, dbBlocks, dbTxs, dbUtxos, pc, blk, txi, ptx, result, pre, audit, issuance, created, work, conn, metadata, mining >>

\* The left/right flag of element k of the proof is inverted.
FlipFlag(k) ==
    /\ merkle.stage = "proved"
    /\ k \in 1..Len(merkle.proof)
    /\ merkle' = [merkle EXCEPT !.proof[k] = << merkle.proof[k][1], ~ merkle.proof[k][2] >>,
                                !.stage = "changed", !.changed = "flag", !.position = k]
    /\ UNCHANGED << chain, utxos, pending, dbBlocks, dbTxs, dbUtxos, pc, blk, txi, ptx, result, pre, audit, issuance, created, work, conn, metadata, mining >>

\* MerkleTree.verify_proof(txids[tx_index], proof, root)
VerifyProof ==
    /\ merkle.stage \in {"proved", "changed"}
    /\ merkle' = [merkle EXCEPT !.answer = verify_proof(merkle.txids[merkle.tx_index + 1],
                                                        merkle.proof, merkle.root),
                                !.stage = "verified"]
    /\ UNCHANGED << chain, utxos, pending, dbBlocks, dbTxs, dbUtxos, pc, blk, txi, ptx, result, pre, audit, issuance, created, work, conn, metadata, mining >>

\* A tree over every list of txids, a proof asked for every index in range.
InitMerkle ==
    /\ InitLedger
    /\ issuance = GenesisIssuance("aF")
    /\ created = [t \in Threads |-> NoCreate]
    /\ work = [t \in Threads |-> NoWork]
    /\ conn = [c \in Connections |-> NoConnection]
    /\ metadata = << >>
    /\ mining = [t \in Threads |-> FALSE]
    /\ \E txids \in TxidLists(MaxTxids) : \E tx_index \in 0..(MaxTxids - 1) :
          /\ tx_index < Len(txids)
          /\ merkle = [NoMerkle EXCEPT !.txids = txids, !.tx_index = tx_index,
                                       !.root = MerkleTree(txids).root, !.stage = "built"]

NextMerkle ==
    \/ GetProof
    \/ \E k \in 1..MaxTxids : \E h \in OtherHashes : ChangeSibling(k, h)
    \/ \E k \in 1..MaxTxids : FlipFlag(k)
    \/ VerifyProof

SpecMerkle == InitMerkle /\ [][NextMerkle]_vars

\* ------------------------------------------------------------------ network
\* Messages peers send to the node whose chain is ch: a ping, requests for
\* the chain, the block of the next height with the miner's coinbase (and
\* the same block with a wrong Merkle root), a payment of the founder and a
\* transaction signed by someone else.
PeerMessages(h, ch) ==
    LET b == MinedBlock(h, << CbM(h) >>, ch[Len(ch)].hash, Difficulty)
    IN { Message("PING", NoBlock, NoTx, 0),
         Message("GET_BLOCKS", NoBlock, NoTx, 0),
         Message("GET_BLOCKS", NoBlock, NoTx, 1),
         Message("NEW_BLOCK", b, NoTx, 0),
         Message("NEW_BLOCK", [b EXCEPT !.merkle_root = << 999 >>], NoTx, 0),
         Message("NEW_TRANSACTION", NoBlock, TxPay, 0),
         Message("NEW_TRANSACTION", NoBlock, TxSteal, 0) }

\* P2PNode._handle_peer: a peer has connected and its message is read.
HandlePeer(c, message) ==
    /\ conn[c].stage = "closed"
    /\ conn' = [conn EXCEPT ![c] = [NoConnection EXCEPT !.stage = "received",
                                                        !.message = message]]
    /\ UNCHANGED << chain, utxos, pending, dbBlocks, dbTxs, dbUtxos, pc, blk, txi, ptx, result, pre, audit, issuance, created, work, merkle, metadata, mining >>

\* P2PNode._process_message: the response by message type.  The NEW_BLOCK
\* and NEW_TRANSACTION branches read the payload, print a line and fall
\* through to return None.
_process_message(message, ch) ==
    IF message.type = "PING" THEN [type |-> "PONG", blocks |-> << >>]
    ELSE IF message.type = "GET_BLOCKS"
         THEN [type |-> "BLOCKS_RESPONSE",
               blocks |-> SubSeq(ch, message.start_index + 1, Len(ch))]
         ELSE NoResponse

\* _handle_peer: response = self._process_message(message, address)
ProcessMessage(c) ==
    /\ conn[c].stage = "received"
    /\ conn' = [conn EXCEPT ![c].stage = "processed",
                            ![c].response = _process_message(conn[c].message, chain)]
    /\ UNCHANGED << chain, utxos, pending, dbBlocks, dbTxs, dbUtxos, pc, blk, txi, ptx, result, pre, audit, issuance, created, work, merkle, metadata, mining >>

\* _handle_peer: the response, if any, is sent and the socket closed.
ClosePeer(c) ==
    /\ conn[c].stage = "processed"
    /\ conn' = [conn EXCEPT ![c] = NoConnection]
    /\ UNCHANGED << chain, utxos, pending, dbBlocks, dbTxs, dbUtxos, pc, blk, txi, ptx, result, pre, audit, issuance, created, work, merkle, metadata, mining >>

NextGossip ==
    \/ \E c \in Connections : \E m \in PeerMessages(get_block_count(dbBlocks), chain) :
          HandlePeer(c, m)
    \/ \E c \in Connections : ProcessMessage(c)
    \/ \E c \in Connections : ClosePeer(c)

\* Each connection is served by a thread of its own that runs
\* _handle_peer to its end: a message that was read is processed, and the
\* connection closed.
SpecGossip ==
    /\ Init
    /\ [][NextGossip]_vars
    /\ \A c \in Connections : WF_vars(ProcessMessage(c)) /\ WF_vars(ClosePeer(c))

\* ------------------------------------------------------------------- store
\* Blocks miners submit when the store height is h, mined on the tip of ch:
\* with the index of the template or the index before it, and with no
\* transaction, the coinbase alone, or the coinbase and the founder's
\* payment.
StoreBlocks(h, ch) ==
    { MinedBlock(i, l, ch[Len(ch)].hash, Difficulty) :
        i \in {h - 1, h}, l \in { << >>, << CbM(h) >>, << CbM(h), TxPay >> } }

\* Blocks reach save_block through add_block.
\* One step of submit_mined_block once it has been entered.
StoreStep(t) ==
    \/ AbTx(t)
    \/ AbCommit(t)
    \/ SbPrune(t)
    \/ Return(t)

NextStore ==
    \/ \E b \in StoreBlocks(get_block_count(dbBlocks), chain) : AllIdle /\ SubmitBlock(1, b)
    \/ \E t \in Threads : StoreStep(t)

SpecStore == Init /\ [][NextStore]_vars

\* ------------------------------------------------------- issuance schedule
\* The reward of the block of index i under the schedule
\* base_reward / 2^(i div halving_interval), in 1/Unit coin.
ScheduledReward(i) == (MiningReward * Unit) \div (2 ^ (i \div HalvingInterval))

\* A block is committed at the store height: the height grows by one and the
\* coins minted by the block's scheduled reward.
MineOne ==
    /\ issuance.height < MaxHalvings * HalvingInterval + IssuanceWindow
    /\ \/ issuance.height % HalvingInterval < IssuanceWindow
       \/ issuance.height % HalvingInterval >= HalvingInterval - IssuanceWindow
    /\ issuance' = [issuance EXCEPT !.height = @ + 1,
                                    !.minted = @ + ScheduledReward(issuance.height),
                                    !.info = NoInfo]
    /\ UNCHANGED << chain, utxos, pending, dbBlocks, dbTxs, dbUtxos,
                    pc, blk, txi, ptx, result, pre, audit, created, work, merkle, conn, metadata, mining >>

\* Away from the halvings, the blocks up to IssuanceWindow before the next
\* halving are committed: all of them have the same scheduled reward.
MineRun ==
    LET n == HalvingInterval - 2 * IssuanceWindow
    IN /\ issuance.height % HalvingInterval = IssuanceWindow
       /\ issuance.height < MaxHalvings * HalvingInterval
       /\ ScheduledReward(issuance.height + n - 1) = ScheduledReward(issuance.height)
       /\ issuance' = [issuance EXCEPT !.height = @ + n,
                                       !.minted = @ + n * ScheduledReward(issuance.height),
                                       !.info = NoInfo]
       /\ UNCHANGED << chain, utxos, pending, dbBlocks, dbTxs, dbUtxos,
                       pc, blk, txi, ptx, result, pre, audit, created, work, merkle, conn, metadata, mining >>

\* api.get_info: the reward and supply figures at the store height.
GetInfo ==
    /\ issuance.info = NoInfo
    /\ issuance' = [issuance EXCEPT !.info =
          [mining_reward |-> mining_reward_at(issuance.height, Unit),
           total_mined |-> get_total_mined(issuance.height, Unit),
           circulating_supply |->
               get_circulating_supply(issuance.height, issuance.founder_address, Unit),
           remaining_supply |->
               get_remaining_supply(issuance.height, issuance.founder_address, Unit)]]
    /\ UNCHANGED << chain, utxos, pending, dbBlocks, dbTxs, dbUtxos,
                    pc, blk, txi, ptx, result, pre, audit, created, work, merkle, conn, metadata, mining >>

\* The ledger is constructed with or without a founder address.
InitIssuance ==
    \E f \in {"aF", "aM", NoFounder} :
        /\ chain = create_genesis_block(f).chain
        /\ utxos = create_genesis_block(f).utxos
        /\ pending = create_genesis_block(f).pending
        /\ dbBlocks = create_genesis_block(f).dbBlocks
        /\ dbTxs = create_genesis_block(f).dbTxs
        /\ dbUtxos = create_genesis_block(f).dbUtxos
        /\ pc = [t \in Threads |-> "idle"]
        /\ blk = [t \in Threads |-> NoBlock]
        /\ txi = [t \in Threads |-> 0]
        /\ ptx = [t \in Threads |-> NoTx]
        /\ result = [t \in Threads |-> "none"]
        /\ pre = [t \in Threads |-> NoSnapshot]
        /\ audit = [t \in Threads |-> NoAudit]
        /\ issuance = GenesisIssuance(f)
        /\ created = [t \in Threads |-> NoCreate]
        /\ work = [t \in Threads |-> NoWork]
        /\ merkle = NoMerkle
        /\ conn = [c \in Connections |-> NoConnection]
        /\ metadata = << >>
        /\ mining = [t \in Threads |-> FALSE]

\* The node is stopped and the ledger opened again on its store:
\* Blockchain.__init__ takes the load_from_db branch and reads the founder
\* address from the metadata table.
ReopenLedger ==
    /\ AllIdle
    /\ get_block_count(dbBlocks) # 0
    /\ chain' = load_recent_blocks(dbBlocks, dbTxs, RecentBlocks)
    /\ utxos' = load_utxo_set(dbUtxos)
    /\ pending' = << >>
    /\ issuance' = [issuance EXCEPT !.founder_address = get_metadata(metadata, "founder_address"),
                                    !.info = NoInfo]
    /\ UNCHANGED << dbBlocks, dbTxs, dbUtxos, pc, blk, txi, ptx, result, pre, audit, created, work, merkle, conn, metadata, mining >>

\* The ledger is opened with or without a founder address, mined on, asked
\* for its supply figures, and reopened.
NextFounder ==
    \/ MineOne
    \/ MineRun
    \/ GetInfo
    \/ ReopenLedger

SpecFounder == InitIssuance /\ [][NextFounder]_vars

NextIssuance ==
    \/ MineOne
    \/ MineRun
    \/ GetInfo

SpecIssuance == InitIssuance /\ [][NextIssuance]_vars

\* ------------------------------------------------------------ properties
\* A call of add_block by thread t has returned value v ("accepted" or
\* "rejected"); the handler may still have to prune the mempool.
AddBlockReturned(t, v) ==
    /\ pc[t] \in {"sb_prune", "ret"}
    /\ blk[t] # NoBlock
    /\ result[t] = v

RECURSIVE ProcessAll(_, _, _)
\* The transaction loop of add_block run without interruption from
\* transaction j on: TRUE iff every transaction is processed.
ProcessAll(S, transactions, j) ==
    IF j > Len(transactions) THEN TRUE
    ELSE LET r == process_transaction(S, transactions[j])
         IN r.ok /\ ProcessAll(r.S, transactions, j + 1)

\* add_block accepts block b when it runs alone on the ledger snap.
AcceptsAlone(snap, b) ==
    /\ add_block_checks(snap.chain[Len(snap.chain)], b)
    /\ ProcessAll([mem |-> snap.utxos, db |-> snap.dbUtxos], b.transactions, 1)

\* C1: when two threads submit, on the same chain, blocks that are each
\* valid for its tip, exactly one call reports success and exactly one block
\* is appended.
C1_ExactlyOneAdmitted ==
    \A t \in Threads : \A u \in Threads \ {t} :
        ( /\ pc[t] = "ret" /\ blk[t] # NoBlock
          /\ pc[u] = "ret" /\ blk[u] # NoBlock
          /\ pre[t].chain = pre[u].chain
          /\ AcceptsAlone(pre[t], blk[t])
          /\ AcceptsAlone(pre[u], blk[u]) )
        => /\ (result[t] = "accepted") # (result[u] = "accepted")
           /\ Len(chain) = Len(pre[t].chain) + 1

\* C2: when add_block returns False, the chain, the UTXO index (in memory
\* and in the store), the stored blocks and the mempool are what they were
\* when the call began.
C2_RejectedBlockChangesNothing ==
    \A t \in Threads : AddBlockReturned(t, "rejected") => Snapshot = pre[t]

\* C3: the committed blocks have consecutive indices 0, 1, 2, ... equal to
\* their position in the chain.
C3_IndexIsPosition ==
    \A i \in 1..Len(chain) : chain[i].index = i - 1

\* C4: every block of the chain has a hash with `difficulty` leading zeros
\* that equals the hash re-derived from its header.
C4_HashMeetsDifficultyAndHeader ==
    \A i \in 1..Len(chain) :
        /\ StartsWithZeros(chain[i].hash, Difficulty)
        /\ chain[i].hash = calculate_hash(chain[i])

\* C5: every block after the first has previous_hash equal to the hash of
\* the block before it in the chain.
C5_Linkage ==
    \A i \in 2..Len(chain) : chain[i].previous_hash = chain[i - 1].hash

\* The coinbase rule for a block: first transaction a coinbase, exactly one
\* coinbase, its outputs at most the scheduled reward for the block's index.
CoinbaseRule(b) ==
    /\ Len(b.transactions) >= 1
    /\ is_coinbase(b.transactions[1])
    /\ Cardinality({ j \in 1..Len(b.transactions) : is_coinbase(b.transactions[j]) }) = 1
    /\ SumAmounts(b.transactions[1].outputs, 1) <= get_current_mining_reward(b.index)

\* C6: every block accepted by add_block satisfies the coinbase rule.
C6_AcceptedBlockHasOneCappedCoinbase ==
    \A t \in Threads : AddBlockReturned(t, "accepted") => CoinbaseRule(blk[t])

\* C7: in every block accepted by add_block, every input of every
\* non-coinbase transaction carried a signature that verified under a public
\* key whose address is the script_pubkey of the UTXO it spent.
C7_AcceptedBlockIsSigned ==
    \A t \in Threads : AddBlockReturned(t, "accepted") => ~ audit[t].badsig

\* C8: in every block accepted by add_block, no non-coinbase transaction had
\* outputs summing to more than the UTXOs its inputs spent.
C8_AcceptedBlockConserves ==
    \A t \in Threads : AddBlockReturned(t, "accepted") => ~ audit[t].inflating

\* Some transaction of b at position pos or later has an output with key k.
RecreatedFrom(b, pos, k) ==
    \E j \in pos..Len(b.transactions) : \E v \in 1..Len(b.transactions[j].outputs) :
        k = UtxoKey(b.transactions[j].txid, v - 1)

\* C9: in every block accepted by add_block, every input of every
\* non-coinbase transaction named a UTXO that was in the index when the
\* transaction was applied, and that UTXO is no longer in the index once the
\* block is committed unless an output of that or a later transaction of the
\* block has the same key.
C9_NoOrphanSpends ==
    \A t \in Threads :
        AddBlockReturned(t, "accepted") =>
            /\ ~ audit[t].orphan
            /\ \A s \in audit[t].spent :
                  s[1] \in DOMAIN utxos => RecreatedFrom(blk[t], s[2], s[1])

\* C9 witness: an accepted block whose transactions spent UTXOs, one of them
\* gone from the index.
C9_Witness ==
    \E t \in Threads :
        /\ AddBlockReturned(t, "accepted")
        /\ \E s \in audit[t].spent : s[1] \notin DOMAIN utxos

\* C10: no two distinct transactions of the mempool have an input naming the
\* same outpoint.
C10_MempoolExclusive ==
    \A p \in 1..Len(pending) : \A q \in 1..Len(pending) :
        (p # q /\ pending[p] # pending[q]) =>
            ~ \E a \in 1..Len(pending[p].inputs) : \E c \in 1..Len(pending[q].inputs) :
                  /\ pending[p].inputs[a].txid = pending[q].inputs[c].txid
                  /\ pending[p].inputs[a].vout = pending[q].inputs[c].vout

\* A call of add_transaction by thread t has returned.
AddTransactionReturned(t) ==
    /\ pc[t] = "ret"
    /\ ptx[t] # NoTx

\* Transactions tx1 and tx2 have an input naming the same outpoint.
SharesOutpoint(tx1, tx2) ==
    \E a \in 1..Len(tx1.inputs) : \E c \in 1..Len(tx2.inputs) :
        /\ tx1.inputs[a].txid = tx2.inputs[c].txid
        /\ tx1.inputs[a].vout = tx2.inputs[c].vout

\* C11: when requests are served one at a time, add_transaction of a
\* transaction that passes the signature and UTXO checks and has an input
\* naming an outpoint that an input of a mempool transaction names returns
\* "Double spend detected in mempool" and leaves the mempool (the earlier
\* transaction included), the UTXO index and the store as they were.
C11_MempoolDoubleSpendRejected ==
    \A t \in Threads :
        ( /\ AddTransactionReturned(t)
          /\ verify_transaction_signature(pre[t].utxos, ptx[t])
          /\ validate_transaction(pre[t].utxos, ptx[t]) = ""
          /\ \E p \in 1..Len(pre[t].pending) : SharesOutpoint(pre[t].pending[p], ptx[t]) )
        => /\ result[t] = "Double spend detected in mempool"
           /\ Snapshot = pre[t]

\* C11 witness: a valid transaction distinct from the mempool's was refused
\* as a double spend.
C11_Witness ==
    \E t \in Threads :
        /\ AddTransactionReturned(t)
        /\ result[t] = "Double spend detected in mempool"
        /\ verify_transaction_signature(pre[t].utxos, ptx[t])
        /\ \E p \in 1..Len(pending) :
              pending[p] # ptx[t] /\ SharesOutpoint(pending[p], ptx[t])

\* Input i of tx names a UTXO of mem, carries the public key of the UTXO's
\* address, and a signature by that key over the signing image.
OwnerSigned(mem, tx, i) ==
    LET inp == tx.inputs[i]
    IN /\ << inp.txid, inp.vout >> \in DOMAIN mem
       /\ Len(inp.script_sig) = 2
       /\ generate_address(inp.script_sig[2]) = mem[<< inp.txid, inp.vout >>].script_pubkey
       /\ inp.script_sig[1] = sign(inp.script_sig[2], get_signing_data(tx, i))

\* C12: add_transaction admits a non-coinbase transaction only if every
\* input names an existing UTXO, carries the public key of that UTXO's
\* address and is signed by it over the signing image; otherwise it returns
\* "Invalid signature" and the mempool is unchanged.
C12_AdmissionRequiresOwnership ==
    \A t \in Threads :
        (AddTransactionReturned(t) /\ ~ is_coinbase(ptx[t])) =>
            LET owned == \A i \in 1..Len(ptx[t].inputs) : OwnerSigned(pre[t].utxos, ptx[t], i)
            IN /\ result[t] = "admitted" => owned
               /\ ~ owned => (result[t] = "Invalid signature" /\ pending = pre[t].pending)

\* C12 witness: a transaction carrying the owner's public key and another
\* key's signature was refused.
C12_Witness ==
    \E t \in Threads :
        /\ AddTransactionReturned(t)
        /\ result[t] = "Invalid signature"
        /\ has_utxo(pre[t].utxos, ptx[t].inputs[1].txid, ptx[t].inputs[1].vout)
        /\ generate_address(ptx[t].inputs[1].script_sig[2])
              = pre[t].utxos[UtxoKey(ptx[t].inputs[1].txid, ptx[t].inputs[1].vout)].script_pubkey

\* C13: add_transaction returns an error, and changes nothing, for every
\* transaction that has an output with a negative amount.
C13_NegativeOutputRejected ==
    \A t \in Threads :
        ( /\ AddTransactionReturned(t)
          /\ \E j \in 1..Len(ptx[t].outputs) : ptx[t].outputs[j].amount < 0 )
        => /\ result[t] # "admitted"
           /\ Snapshot = pre[t]

\* The store holds block b: its header row under its index and each of its
\* transactions under that index.
Persisted(b) ==
    /\ b.index \in DOMAIN dbBlocks
    /\ dbBlocks[b.index] = BlockRow(b)
    /\ \A j \in 1..Len(b.transactions) :
          /\ b.transactions[j].txid \in DOMAIN dbTxs
          /\ dbTxs[b.transactions[j].txid].block_index = b.index

\* C14: add_block reports success only if save_block stored the block (when
\* save_block fails the call reports failure).
C14_AcceptedBlockIsPersisted ==
    \A t \in Threads : AddBlockReturned(t, "accepted") => Persisted(blk[t])

\* The addresses of the model's wallets.
Addresses == {generate_address(k) : k \in Keys}

\* C15: constructing a new Blockchain on the same store yields the tip hash,
\* the height, the UTXO map and the balance of every address that the live
\* ledger had before the restart.
C15_RestartRecovers ==
    [][ Restart =>
          /\ chain'[Len(chain')].hash = chain[Len(chain)].hash
          /\ get_block_count(dbBlocks') = get_block_count(dbBlocks)
          /\ utxos' = utxos
          /\ \A a \in Addresses : get_balance(utxos', a) = get_balance(utxos, a) ]_vars

RECURSIVE ReplayTransactions(_, _, _)
\* UTXOSet.process_transaction applied to transactions j.. of a block, on a
\* UTXO set without a store.
ReplayTransactions(S, transactions, j) ==
    IF j > Len(transactions) THEN S
    ELSE ReplayTransactions(process_transaction(S, transactions[j]).S, transactions, j + 1)

RECURSIVE ReplayChain(_, _, _)
\* The transactions of blocks i.. of chain ch applied in order.
ReplayChain(S, ch, i) ==
    IF i > Len(ch) THEN S
    ELSE ReplayChain(ReplayTransactions(S, ch[i].transactions, 1), ch, i + 1)

\* C16: whenever no call is in progress, applying the transactions of the
\* chain's blocks in order to an empty UTXO set gives the live UTXO index.
C16_UtxoDeterminism ==
    AllIdle => utxos = ReplayChain([mem |-> << >>, db |-> << >>], chain, 1).mem

\* A call of is_chain_valid by thread t has returned.
ValidateReturned(t) ==
    /\ pc[t] = "ret"
    /\ result[t] \in {"valid", "invalid"}

\* The UTXO set obtained by replaying, from an empty set, the blocks before
\* position i of ch and the transactions before position j of block i.
ReplayedUpTo(ch, i, j) ==
    ReplayTransactions(ReplayChain([mem |-> << >>, db |-> << >>], SubSeq(ch, 1, i - 1), 1),
                       SubSeq(ch[i].transactions, 1, j - 1), 1)

\* Every block of ch after the first passes the proof-of-work, hash, linkage
\* and Merkle-root checks, and each of its transactions is a coinbase or is
\* signed by the owners of, and valid against, the replayed UTXO set.
ChainIsSound(ch) ==
    \A i \in 2..Len(ch) :
        /\ StartsWithZeros(ch[i].hash, Difficulty)
        /\ ch[i].hash = calculate_hash(ch[i])
        /\ ch[i].previous_hash = ch[i - 1].hash
        /\ verify_merkle_root(ch[i])
        /\ \A j \in 1..Len(ch[i].transactions) :
              LET tx == ch[i].transactions[j]
                  S == ReplayedUpTo(ch, i, j)
              IN \/ is_coinbase(tx)
                 \/ /\ \A k \in 1..Len(tx.inputs) : OwnerSigned(S.mem, tx, k)
                    /\ validate_transaction(S.mem, tx) = ""
                    /\ process_transaction(S, tx).ok

\* C17: is_chain_valid returns True exactly when the chain, replayed from an
\* empty UTXO set, passes the header checks and every non-coinbase
\* transaction is signed and valid with respect to the replayed set.
C17_AuditCorrect ==
    \A t \in Threads :
        ValidateReturned(t) => (result[t] = "valid" <=> ChainIsSound(pre[t].chain))

\* C18: a call of is_chain_valid leaves the chain, every field of its
\* transactions, the UTXO index, the mempool and the store as they were.
C18_AuditReadOnly ==
    \A t \in Threads : ValidateReturned(t) => Snapshot = pre[t]

\* C18 witness: the audit returned after verify_transaction_signature cleared
\* and restored the script_sig of an input of a committed transaction.
C18_Witness ==
    \E t \in Threads :
        /\ ValidateReturned(t)
        /\ \E i \in 2..Len(chain) : \E j \in 1..Len(chain[i].transactions) :
              LET tx == chain[i].transactions[j]
              IN /\ ~ is_coinbase(tx)
                 /\ has_utxo(utxos, tx.inputs[1].txid, tx.inputs[1].vout)
                 /\ VerifyTransactionObject(utxos, tx).ok
                 /\ result[t] = "valid"

\* C19: at every store height H >= 1 the reward is
\* base_reward / 2^(H div halving_interval), get_total_mined is the sum of the
\* scheduled rewards of blocks 1..H-1, and get_circulating_supply is that sum
\* plus founder_allocation when a founder address is set.
C19_IssuanceSchedule ==
    issuance.info # NoInfo =>
        /\ issuance.info.mining_reward * 2 ^ (issuance.height \div HalvingInterval)
              = MiningReward * Unit
        /\ issuance.info.total_mined = issuance.minted
        /\ issuance.info.circulating_supply =
              issuance.minted
                 + (IF issuance.founder_address # NoFounder THEN FounderAllocation * Unit ELSE 0)

\* C19 witness: the figures were asked for past the second halving, a block
\* after a halving boundary, with a founder address set.
C19_Witness ==
    /\ issuance.info # NoInfo
    /\ issuance.height = 2 * HalvingInterval + 2
    /\ issuance.founder_address # NoFounder
    /\ issuance.minted > 0

\* C20: at every height get_circulating_supply() <= max_supply and
\* get_remaining_supply() >= 0.
C20_IssuanceCap ==
    issuance.info # NoInfo =>
        /\ issuance.info.circulating_supply <= MaxSupply * Unit
        /\ issuance.info.remaining_supply >= 0

\* C20 witness: the figures were asked for on a ledger with the founder
\* allocation, at the last height followed.
C20_Witness ==
    /\ issuance.info # NoInfo
    /\ issuance.founder_address # NoFounder
    /\ issuance.height = MaxHalvings * HalvingInterval + IssuanceWindow
    /\ issuance.info.remaining_supply < (MaxSupply - FounderAllocation) * Unit

\* C21: a ledger opened on an empty store with founder address A is one
\* block of index 0 and previous_hash of 64 zeros holding a single coinbase
\* of founder_allocation to A; the height is 1, the balance of A 20,000,000,
\* the remaining supply 80,000,000, and the block and its UTXO are in the
\* store.  Without a founder address the coinbase pays 0 to "GENESIS".
C21_GenesisConstruction ==
    (issuance.height = 1 /\ issuance.info # NoInfo) =>
        LET A == issuance.founder_address
            tx == chain[1].transactions[1]
        IN /\ Len(chain) = 1
           /\ chain[1].index = 0
           /\ chain[1].previous_hash = ZeroHash
           /\ Len(chain[1].transactions) = 1
           /\ is_coinbase(tx)
           /\ get_block_count(dbBlocks) = 1
           /\ Persisted(chain[1])
           /\ DOMAIN utxos = {UtxoKey(tx.txid, 0)}
           /\ DOMAIN dbUtxos = DOMAIN utxos
           /\ dbUtxos[UtxoKey(tx.txid, 0)].amount = tx.outputs[1].amount
           /\ dbUtxos[UtxoKey(tx.txid, 0)].address = tx.outputs[1].script_pubkey
           /\ IF A # NoFounder
              THEN /\ tx.outputs = << TxOutput(FounderAllocation, A) >>
                   /\ get_balance(utxos, A) = 20000000
                   /\ issuance.info.remaining_supply = 80000000 * Unit
              ELSE tx.outputs = << TxOutput(0, "GENESIS") >>

\* C21 witness: the figures of a ledger just constructed with a founder
\* address were asked for.
C21_Witness ==
    /\ issuance.height = 1
    /\ issuance.info # NoInfo
    /\ issuance.founder_address = "aM"
    /\ get_balance(utxos, "aM") = FounderAllocation

\* A call of create_transaction by thread t has returned.
CreateReturned(t) ==
    /\ pc[t] = "ret"
    /\ created[t] # NoCreate

RECURSIVE SumSpent(_, _, _)
\* The total amount of the UTXOs of mem that inputs j.. name.
SumSpent(mem, inputs, j) ==
    IF j > Len(inputs) THEN 0
    ELSE mem[UtxoKey(inputs[j].txid, inputs[j].vout)].amount + SumSpent(mem, inputs, j + 1)

\* C22: create_transaction(sender, recipient, amount) returns None exactly
\* when the sum of the sender's UTXOs is less than amount; otherwise the
\* inputs of the transaction are distinct UTXOs owned by the sender with
\* total S >= amount, its first output pays amount to the recipient, and it
\* has a second output paying S - amount to the sender exactly when
\* S - amount exceeds the dust threshold; the UTXO index and the mempool are
\* unchanged.
C22_CreateTransactionContract ==
    \A t \in Threads :
        CreateReturned(t) =>
            LET c == created[t]
                sender == generate_address(c.sender)
                S == SumSpent(utxos, c.tx.inputs, 1)
            IN /\ Snapshot = pre[t]
               /\ c.returned = "None" <=> get_balance(utxos, sender) < c.amount
               /\ c.returned = "tx" =>
                     /\ \A i \in 1..Len(c.tx.inputs) :
                           /\ has_utxo(utxos, c.tx.inputs[i].txid, c.tx.inputs[i].vout)
                           /\ utxos[UtxoKey(c.tx.inputs[i].txid, c.tx.inputs[i].vout)].script_pubkey
                                 = sender
                           /\ \A j \in 1..Len(c.tx.inputs) :
                                 (c.tx.inputs[i].txid = c.tx.inputs[j].txid
                                    /\ c.tx.inputs[i].vout = c.tx.inputs[j].vout) => i = j
                     /\ S >= c.amount
                     /\ c.tx.outputs[1] = TxOutput(c.amount, c.recipient_address)
                     /\ IF S - c.amount > DustThreshold
                        THEN /\ Len(c.tx.outputs) = 2
                             /\ c.tx.outputs[2] = TxOutput(S - c.amount, sender)
                        ELSE Len(c.tx.outputs) = 1

\* C23: every transaction returned by create_transaction passes
\* verify_transaction_signature in the state in which it was created: the
\* image signed for each input is the image checked for it.
C23_SignerAndVerifierAgree ==
    \A t \in Threads :
        (CreateReturned(t) /\ created[t].returned = "tx") =>
            /\ VerifyTransactionObject(utxos, created[t].tx).ok
            /\ \A i \in 1..Len(created[t].tx.inputs) :
                  created[t].tx.inputs[i].script_sig[1].msg
                     = get_signing_data(ClearScriptSig(created[t].tx, i), i)

\* C23 witness: a transaction with two inputs was created and verifies.
C23_Witness ==
    \E t \in Threads :
        /\ CreateReturned(t)
        /\ created[t].returned = "tx"
        /\ Len(created[t].tx.inputs) = 2
        /\ verify_transaction_signature(utxos, created[t].tx)

\* The transaction tx as it was when it was constructed: every script_sig
\* empty.
AtConstruction(tx) ==
    [tx EXCEPT !.inputs = [j \in 1..Len(tx.inputs) |->
                              [tx.inputs[j] EXCEPT !.script_sig = << Text("", << >>) >>]]]

\* C24: the txid of a transaction is the one derived at construction, after
\* create_transaction has filled in the signatures and after
\* verify_transaction_signature has cleared and restored a script_sig.
C24_TxidStable ==
    \A t \in Threads :
        (CreateReturned(t) /\ created[t].returned = "tx") =>
            /\ created[t].tx.txid = calculate_txid(AtConstruction(created[t].tx))
            /\ VerifyTransactionObject(utxos, created[t].tx).tx.txid = created[t].tx.txid
            /\ \A i \in 1..Len(created[t].tx.inputs) :
                  ClearScriptSig(created[t].tx, i).txid = created[t].tx.txid

\* C24 witness: a signed transaction was returned whose txid is not the
\* digest of its present content.
C24_Witness ==
    \E t \in Threads :
        /\ CreateReturned(t)
        /\ created[t].returned = "tx"
        /\ Len(created[t].tx.inputs[1].script_sig) = 2
        /\ created[t].tx.txid # calculate_txid(created[t].tx)

\* The content from which the constructor derived the txid of tx: a coinbase
\* is constructed with its script_sig, any other transaction with empty ones.
DerivationContent(tx) ==
    IF is_coinbase(tx) THEN calculate_txid(tx) ELSE calculate_txid(AtConstruction(tx))

\* C25: the txid under which a submitted transaction is committed is the
\* one derived from its content.  A digest is determined by the content, so
\* a transaction of an accepted block and a committed transaction that carry
\* the same txid have the same content.
C25_SubmittedTxidsRederived ==
    \A t \in Threads :
        AddBlockReturned(t, "accepted") =>
            \A j \in 1..Len(blk[t].transactions) :
                \A i \in 1..Len(chain) : \A k \in 1..Len(chain[i].transactions) :
                    blk[t].transactions[j].txid = chain[i].transactions[k].txid =>
                        DerivationContent(blk[t].transactions[j])
                            = DerivationContent(chain[i].transactions[k])

\* Block b fails one of the checks at the head of add_block on chain ch: its
\* hash has fewer than `difficulty` leading zeros, its previous_hash is not
\* the hash of the last block, or its merkle_root is not the root of its
\* transactions' txids.
FailsEarlyCheck(ch, b) ==
    \/ LeadingZeros(b.hash) < Difficulty
    \/ b.previous_hash # ch[Len(ch)].hash
    \/ get_root(b.transactions) # b.merkle_root

\* C26: a block that fails the proof-of-work, previous-hash or Merkle-root
\* check is rejected by add_block, and the chain, the UTXO index, the
\* mempool and the store are as they were before the call.
C26_EarlyRejectionChangesNothing ==
    \A t \in Threads :
        ( /\ pc[t] \in {"sb_prune", "ret"}
          /\ blk[t] # NoBlock
          /\ FailsEarlyCheck(pre[t].chain, blk[t]) )
        => /\ result[t] = "rejected"
           /\ Snapshot = pre[t]

\* C26 witness: a block with valid proof of work and Merkle root, built on
\* the block before the tip and carrying transactions, was rejected.
C26_Witness ==
    \E t \in Threads :
        /\ AddBlockReturned(t, "rejected")
        /\ Len(chain) >= 2
        /\ blk[t].previous_hash = chain[Len(chain) - 1].hash
        /\ StartsWithZeros(blk[t].hash, Difficulty)
        /\ verify_merkle_root(blk[t])
        /\ Len(blk[t].transactions) >= 1

\* The txids of the transactions of block b.
BlockTxids(b) == { b.transactions[i].txid : i \in 1..Len(b.transactions) }

\* The pool without the transactions whose txid appears in block b, the
\* others in their order.
WithoutIncluded(pool, b) ==
    LET remains(tx) == tx.txid \notin BlockTxids(b)
    IN SelectSeq(pool, remains)

\* C27: once a block submitted through api.submit_mined_block is accepted
\* and the request has returned, the mempool is the mempool the request
\* found with every transaction whose txid appears in the block removed,
\* the remaining transactions in their previous order.
C27_MempoolPrunedOnCommit ==
    \A t \in Threads :
        ( /\ pc[t] = "ret"
          /\ AddBlockReturned(t, "accepted") )
        => pending = WithoutIncluded(pre[t].pending, blk[t])

\* get_mining_work has returned a template to thread t.
WorkReturned(t) ==
    /\ pc[t] = "ret"
    /\ result[t] = "work"

\* C28: every template returned by get_mining_work names as previous_hash
\* the hash of a stored block whose index is block_index - 1, carries the
\* scheduled reward of block_index, and lists the coinbase of that reward
\* followed by the mempool as it was read in one step, whatever is committed
\* or admitted while the request runs.
C28_WorkTemplateConsistent ==
    \A t \in Threads :
        WorkReturned(t) =>
            LET w == work[t]
            IN /\ \E i \in DOMAIN dbBlocks :
                     /\ dbBlocks[i].hash = w.previous_hash
                     /\ w.block_index = i + 1
               /\ w.reward = get_current_mining_reward(w.block_index)
               /\ w.transactions =
                     << create_coinbase(100 + w.block_index, "aM", w.reward, w.block_index) >>
                        \o w.mempool

\* C29: the proof get_proof returns for an index in range verifies against
\* the root, and it no longer verifies once one of its sibling hashes has
\* been replaced or one of its left/right flags inverted.
C29_MerkleRoundTrip ==
    merkle.stage = "verified" =>
        /\ merkle.changed = "none" => merkle.answer
        /\ merkle.changed # "none" => ~ merkle.answer

\* The node the changed element of the proof is combined with is the
\* sibling itself: the last node of a level of odd length, which build_tree
\* pairs with its own copy.
PairedWithItself ==
    HashUpTo(merkle.txids[merkle.tx_index + 1], merkle.proof, merkle.position - 1)
        = merkle.proof[merkle.position][1]

\* C29 as amended: the proof of an index in range verifies; with one sibling
\* hash replaced by a different hash it does not; with one flag inverted it
\* does not, except where the sibling is the hash of the node itself, where
\* it still verifies.
C29_MerkleRoundTripAmended ==
    merkle.stage = "verified" =>
        /\ merkle.changed = "none" => merkle.answer
        /\ merkle.changed = "hash" => ~ merkle.answer
        /\ merkle.changed = "flag" => (merkle.answer <=> PairedWithItself)

C29_Witness ==
    /\ merkle.stage = "verified"
    /\ merkle.changed = "flag"
    /\ Len(merkle.txids) = 3
    /\ merkle.tx_index = 2
    /\ merkle.position = 1
    /\ merkle.answer

\* Connection c has read a NEW_BLOCK message whose block add_block would
\* accept on the ledger as it is.
ReceivedAcceptableBlock(c) ==
    /\ conn[c].stage = "received"
    /\ conn[c].message.type = "NEW_BLOCK"
    /\ AcceptsAlone(Snapshot, conn[c].message.block)

\* Connection c has read a NEW_TRANSACTION message whose transaction
\* add_transaction would admit on the ledger as it is.
ReceivedAdmissibleTransaction(c) ==
    /\ conn[c].stage = "received"
    /\ conn[c].message.type = "NEW_TRANSACTION"
    /\ add_transaction_error(utxos, pending, conn[c].message.transaction) = ""

\* The chain has committed a block of hash h.
OnChain(h) == \E i \in 1..Len(chain) : chain[i].hash = h

\* The mempool holds a transaction of txid id.
InMempool(id) == \E i \in 1..Len(pending) : pending[i].txid = id

\* C30: a block add_block would accept that arrives in a NEW_BLOCK message
\* is eventually on the chain, and a transaction add_transaction would admit
\* that arrives in a NEW_TRANSACTION message is eventually in the mempool.
C30_GossipReachesLedger ==
    \A c \in Connections :
        /\ \A b \in { m.block : m \in PeerMessages(1, << GenesisBlock >>) } :
              (ReceivedAcceptableBlock(c) /\ conn[c].message.block = b) ~> OnChain(b.hash)
        /\ \A tx \in { TxPay, TxSteal } :
              (ReceivedAdmissibleTransaction(c) /\ conn[c].message.transaction = tx)
                  ~> InMempool(tx.txid)

\* C31: whenever add_utxo, remove_utxo or process_transaction has
\* completed, with success or not, the rows of the store's utxos table are
\* the entries of the in-memory map, so that load_utxo_set returns the live
\* map.
C31_UtxoWriteThrough == load_utxo_set(dbUtxos) = utxos

\* A block was rejected by a process_transaction that failed after it had
\* removed or added UTXOs.
C31_Witness ==
    \E t \in Threads :
        /\ AddBlockReturned(t, "rejected")
        /\ utxos # pre[t].utxos
        /\ Len(chain) >= 2

\* The stored transactions of the block of index i.
StoredTransactions(txs, i) == {id \in DOMAIN txs : txs[id].block_index = i}

\* C32: once a block of index i is stored, no later save_block changes the
\* header row of index i or the transactions stored for index i.
C32_StoredBlocksNotOverwritten ==
    [][ \A i \in DOMAIN dbBlocks :
           /\ i \in DOMAIN dbBlocks'
           /\ dbBlocks'[i] = dbBlocks[i]
           /\ StoredTransactions(dbTxs', i) = StoredTransactions(dbTxs, i) ]_vars

\* The stored block of index i as load_recent_blocks returns it.
LoadedBlock(i) ==
    LET blocks == load_recent_blocks(dbBlocks, dbTxs, RecentBlocks)
    IN blocks[CHOOSE k \in 1..Len(blocks) : blocks[k].index = i]

\* C33: a block that save_block has stored is loaded back with the
\* transactions of the saved block in the same order, and the loaded block
\* passes verify_merkle_root.
C33_BlockRoundTrip ==
    \A t \in Threads :
        ( /\ AddBlockReturned(t, "accepted")
          /\ save_block(pre[t].dbBlocks, pre[t].dbTxs, blk[t]).ok )
        => /\ LoadedBlock(blk[t].index).transactions = blk[t].transactions
           /\ verify_merkle_root(LoadedBlock(blk[t].index))

\* C34: reopening the ledger on its store leaves founder_address as it was
\* when the ledger was created, and get_circulating_supply() and
\* get_remaining_supply() return what they returned before: no step that
\* leaves the height unchanged changes them.
C34_FounderSurvivesRestart ==
    [][ issuance'.height = issuance.height =>
          /\ issuance'.founder_address = issuance.founder_address
          /\ get_circulating_supply(issuance'.height, issuance'.founder_address, Unit)
                = get_circulating_supply(issuance.height, issuance.founder_address, Unit)
          /\ get_remaining_supply(issuance'.height, issuance'.founder_address, Unit)
                = get_remaining_supply(issuance.height, issuance.founder_address, Unit) ]_vars

\* The positions of the coinbase transactions in a list of transactions.
Coinbases(transactions) == { i \in 1..Len(transactions) : is_coinbase(transactions[i]) }

\* C35: the mempool never holds a transaction for which is_coinbase() is
\* true, and the transactions of the work template, the miner's coinbase
\* followed by the mempool, hold exactly one coinbase.
C35_NoCoinbaseInMempool ==
    /\ Coinbases(pending) = {}
    /\ Cardinality(Coinbases(<< CbM(get_block_count(dbBlocks)) >> \o pending)) = 1

\* The block a miner builds from the template get_mining_work returns in
\* the current state: its block_index and previous_hash, the coinbase
\* followed by the mempool, the Merkle root of these transactions and a hash
\* meeting the difficulty.
TemplateBlock ==
    LET actual_height == get_block_count(dbBlocks)
        latest_block == IF DOMAIN dbBlocks # {}
                        THEN get_latest_block_from_db(dbBlocks, dbTxs)
                        ELSE chain[Len(chain)]
    IN MinedBlock(actual_height, << CbM(actual_height) >> \o pending,
                  latest_block.hash, Difficulty)

\* C36: whenever no request is running, the block built from the work
\* template of the current state is accepted by add_block when it is
\* submitted next, so a further block can always be accepted.
C36_TemplateAccepted == AllIdle => AcceptsAlone(Snapshot, TemplateBlock)

\* The outpoints (txid, vout) the inputs of a transaction name.
Outpoints(tx) == { << tx.inputs[k].txid, tx.inputs[k].vout >> : k \in 1..Len(tx.inputs) }

\* C37: whenever no request is running, every input of every spending
\* transaction in the mempool names an outpoint that is in the UTXO index.
C37_MempoolSpendable ==
    AllIdle => \A i \in 1..Len(pending) :
                   ~ is_coinbase(pending[i]) => Outpoints(pending[i]) \subseteq DOMAIN utxos

\* C38: every transaction create_transaction returns, for any amount and
\* any sender, has at least one input and only strictly positive output
\* amounts.
C38_CreatedSpendIsBacked ==
    \A t \in Threads :
        (CreateReturned(t) /\ created[t].returned = "tx") =>
            /\ Len(created[t].tx.inputs) >= 1
            /\ \A o \in 1..Len(created[t].tx.outputs) : created[t].tx.outputs[o].amount > 0

\* C39: when mine_pending_transactions clears the mempool after its block
\* was committed, every transaction of the mempool, those admitted while the
\* call was running included, is in the committed block or still in the
\* mempool afterwards.
C39_NoTransactionLostByMining ==
    [][ \A t \in Threads :
          (pc[t] = "mp_clear" /\ pc'[t] = "ret") =>
              \A i \in 1..Len(pending) :
                  \/ \E j \in 1..Len(blk[t].transactions) :
                        blk[t].transactions[j].txid = pending[i].txid
                  \/ \E j \in 1..Len(pending') : pending'[j].txid = pending[i].txid ]_vars

\* Two inputs of tx name the same outpoint (txid, vout).
NamesOutpointTwice(tx) ==
    \E a, c \in 1..Len(tx.inputs) :
        /\ a # c
        /\ tx.inputs[a].txid = tx.inputs[c].txid
        /\ tx.inputs[a].vout = tx.inputs[c].vout

\* C40: a spending transaction in which two inputs name the same outpoint is
\* rejected by validate_transaction and so is not admitted by
\* add_transaction.
C40_DuplicateInputsRejected ==
    \A t \in Threads :
        (AddTransactionReturned(t) /\ ~ is_coinbase(ptx[t]) /\ NamesOutpointTwice(ptx[t]))
        => /\ validate_transaction(pre[t].utxos, ptx[t]) # ""
           /\ result[t] # "admitted"

====
